---- MODULE Spec2Model ----
(***************************************************************************)
(* function-approve: the approval gate of src/fn.go as a state machine.    *)
(*                                                                         *)
(* Go strings are tuples of tokens: a token is either the separator "."    *)
(* or an atom that holds no separator.  The empty string is <<>> and       *)
(* concatenation is \o.  A JSON value is a tagged record [t, v].           *)
(***************************************************************************)
EXTENDS Integers, Sequences, FiniteSets, TLC

VARIABLES
    in,        \* the Function input of the Composition step (fixed per behaviour)
    xr,        \* the composite resource as persisted by the API server
    req,       \* the RunFunctionRequest of the latest invocation
    rsp,       \* the RunFunctionResponse of the latest invocation
    ev,        \* the latest event: "init", "edit", "approve", "reset", "invoke", "run"
    hist       \* what the approver and earlier invocations did (ghost)

vars == <<in, xr, req, rsp, ev, hist>>

----------------------------------------------------------------------------
(* Strings *)

Dot == "."

S(a) == <<a>>

EmptyStr == <<>>

\* the number of distinct monitored contents the environment can write
NumContents == 2

----------------------------------------------------------------------------
(* JSON values of an unstructured object *)

Str(s) == [t |-> "str", v |-> s]

Bool(b) == [t |-> "bool", v |-> b]

Num(n) == [t |-> "num", v |-> n]

Map(m) == [t |-> "map", v |-> m]

List(elems) == [t |-> "list", v |-> elems]

EmptyFn == [k \in {} |-> Str(EmptyStr)]

EmptyMap == Map(EmptyFn)

IsMap(x) == x.t = "map"

\* m with key k bound to value x (Go: m[k] = x)
Put(m, k, x) == [j \in (DOMAIN m) \cup {k} |-> IF j = k THEN x ELSE m[j]]

Nil == [t |-> "nil", v |-> FALSE]

NoErr == EmptyStr

----------------------------------------------------------------------------
(* package strings *)

\* strings.Split(s, "."): the parts between the separators, empty ones included
Split(s) ==
    LET RECURSIVE go(_, _, _)
        go(i, cur, acc) ==
            IF i > Len(s) THEN Append(acc, cur)
            ELSE IF s[i] = Dot THEN go(i + 1, EmptyStr, Append(acc, cur))
            ELSE go(i + 1, Append(cur, s[i]), acc)
    IN go(1, EmptyStr, <<>>)

\* strings.SplitN(s, ".", 2): cut at the first separator only
SplitN2(s) ==
    LET dots == {i \in 1..Len(s) : s[i] = Dot}
    IN IF dots = {} THEN <<s>>
       ELSE LET i == CHOOSE d \in dots : \A e \in dots : d <= e
            IN <<SubSeq(s, 1, i - 1), SubSeq(s, i + 1, Len(s))>>

\* strings.TrimPrefix(s, prefix)
TrimPrefix(s, prefix) ==
    IF Len(s) >= Len(prefix) /\ SubSeq(s, 1, Len(prefix)) = prefix
    THEN SubSeq(s, Len(prefix) + 1, Len(s))
    ELSE s

StatusPrefix == <<"status", Dot>>

----------------------------------------------------------------------------
(* Path accessor *)

\* Body applied to the value v, which is computed once (Go: x := v; Body)
With(v, Body(_)) == CHOOSE y \in {Body(x) : x \in {v}} : TRUE

ParseNestedKey(key) ==
    With(SelectSeq(Split(key), LAMBDA p : p # EmptyStr), LAMBDA parts :
        IF Len(parts) = 0
        THEN [parts |-> <<>>, err |-> S("invalid key")]
        ELSE [parts |-> parts, err |-> NoErr])

\* mutant: a value that is not a mapping ends the walk as the value found
GetNestedValue_stopsAtLeaf(data, key) ==
    With(ParseNestedKey(key), LAMBDA p :
        LET RECURSIVE walk(_, _)
            walk(currentValue, i) ==
                IF i > Len(p.parts)
                THEN [value |-> currentValue, exists |-> TRUE, err |-> NoErr]
                ELSE IF IsMap(currentValue)
                     THEN IF p.parts[i] \in DOMAIN currentValue.v
                          THEN walk(currentValue.v[p.parts[i]], i + 1)
                          ELSE [value |-> Nil, exists |-> FALSE, err |-> NoErr]
                     ELSE [value |-> currentValue, exists |-> TRUE, err |-> NoErr]
        IN IF p.err # NoErr
           THEN [value |-> Nil, exists |-> FALSE, err |-> p.err]
           ELSE walk(Map(data), 1))

\* data is the map[string]interface{} itself (a function from keys to values)
GetNestedValue(data, key) ==
    With(ParseNestedKey(key), LAMBDA p :
        LET RECURSIVE walk(_, _)
            walk(currentValue, i) ==
                IF i > Len(p.parts)
                THEN [value |-> currentValue, exists |-> TRUE, err |-> NoErr]
                ELSE IF IsMap(currentValue)
                     THEN IF p.parts[i] \in DOMAIN currentValue.v
                          THEN walk(currentValue.v[p.parts[i]], i + 1)
                          ELSE [value |-> Nil, exists |-> FALSE, err |-> NoErr]
                     ELSE [value |-> Nil, exists |-> FALSE, err |-> NoErr]
        IN IF p.err # NoErr
           THEN [value |-> Nil, exists |-> FALSE, err |-> p.err]
           ELSE walk(Map(data), 1))

\* mutant: an intermediate value that is not a mapping is replaced by one
SetNestedValue_replacesLeaf(root, key, value) ==
    With(ParseNestedKey(key), LAMBDA p :
        LET RECURSIVE step(_, _)
            step(current, i) ==
                IF i = Len(p.parts)
                THEN [root |-> Put(current, p.parts[i], value), err |-> NoErr]
                ELSE IF p.parts[i] \in DOMAIN current /\ IsMap(current[p.parts[i]])
                     THEN With(step(current[p.parts[i]].v, i + 1), LAMBDA r :
                               [root |-> Put(current, p.parts[i], Map(r.root)),
                                err |-> r.err])
                     ELSE With(step(EmptyFn, i + 1), LAMBDA r :
                               [root |-> Put(current, p.parts[i], Map(r.root)),
                                err |-> r.err])
        IN IF p.err # NoErr
           THEN [root |-> root, err |-> p.err]
           ELSE step(root, 1))

\* mutant: a mapping on the way is replaced by a new one that holds the path
\* alone
SetNestedValue_freshMappings(root, key, value) ==
    With(ParseNestedKey(key), LAMBDA p :
        LET RECURSIVE step(_, _)
            step(current, i) ==
                IF i = Len(p.parts)
                THEN [root |-> Put(current, p.parts[i], value), err |-> NoErr]
                ELSE IF p.parts[i] \in DOMAIN current /\ ~IsMap(current[p.parts[i]])
                     THEN [root |-> current,
                           err |-> S("key \"") \o p.parts[i]
                                   \o S("\" exists but is not a map")]
                     ELSE With(step(EmptyFn, i + 1), LAMBDA r :
                               [root |-> Put(current, p.parts[i], Map(r.root)),
                                err |-> r.err])
        IN IF p.err # NoErr
           THEN [root |-> root, err |-> p.err]
           ELSE step(root, 1))

\* mutant: a value that is not a mapping is cleared away before the error is
\* returned
SetNestedValue_clearsThenFails(root, key, value) ==
    With(ParseNestedKey(key), LAMBDA p :
        LET RECURSIVE step(_, _)
            step(current, i) ==
                IF i = Len(p.parts)
                THEN [root |-> Put(current, p.parts[i], value), err |-> NoErr]
                ELSE IF p.parts[i] \in DOMAIN current
                     THEN IF IsMap(current[p.parts[i]])
                          THEN With(step(current[p.parts[i]].v, i + 1), LAMBDA r :
                                    [root |-> Put(current, p.parts[i], Map(r.root)),
                                     err |-> r.err])
                          ELSE [root |-> Put(current, p.parts[i], EmptyMap),
                                err |-> S("key \"") \o p.parts[i]
                                        \o S("\" exists but is not a map")]
                     ELSE With(step(EmptyFn, i + 1), LAMBDA r :
                               [root |-> Put(current, p.parts[i], Map(r.root)),
                                err |-> r.err])
        IN IF p.err # NoErr
           THEN [root |-> root, err |-> p.err]
           ELSE step(root, 1))

\* Go mutates root in place: the result holds root as the call leaves it,
\* also when it returns an error.
SetNestedValue(root, key, value) ==
    With(ParseNestedKey(key), LAMBDA p :
        LET RECURSIVE step(_, _)
            step(current, i) ==
                IF i = Len(p.parts)
                THEN [root |-> Put(current, p.parts[i], value), err |-> NoErr]
                ELSE IF p.parts[i] \in DOMAIN current
                     THEN IF IsMap(current[p.parts[i]])
                          THEN With(step(current[p.parts[i]].v, i + 1), LAMBDA r :
                                    [root |-> Put(current, p.parts[i], Map(r.root)),
                                     err |-> r.err])
                          ELSE [root |-> current,
                                err |-> S("key \"") \o p.parts[i]
                                        \o S("\" exists but is not a map")]
                     ELSE With(step(EmptyFn, i + 1), LAMBDA r :
                               [root |-> Put(current, p.parts[i], Map(r.root)),
                                err |-> r.err])
        IN IF p.err # NoErr
           THEN [root |-> root, err |-> p.err]
           ELSE step(root, 1))

----------------------------------------------------------------------------
(* Content hasher *)

\* json.Marshal writes the keys of a map in sorted order; the atoms in use,
\* in byte order
KeyOrder ==
    << S("a"), S("approved"), S("b"), S("currentHash"), S("gate"), S("hash"),
       S("newHash"), S("other"), S("region"), S("resources"), S("test") >>

NaN == Num("NaN")

\* json.Marshal(data): the bytes, or an error for a value JSON cannot hold
Marshal(data) ==
    LET RECURSIVE enc(_)
        enc(x) ==
            CASE x.t = "str" -> [bytes |-> S("\"") \o x.v \o S("\""), err |-> NoErr]
              [] x.t = "bool" -> [bytes |-> IF x.v THEN S("true") ELSE S("false"),
                                  err |-> NoErr]
              [] x.t = "num" -> IF x = NaN
                                THEN [bytes |-> EmptyStr,
                                      err |-> S("json: unsupported value: NaN")]
                                ELSE [bytes |-> S(x.v), err |-> NoErr]
              [] x.t = "nil" -> [bytes |-> S("null"), err |-> NoErr]
              [] x.t = "list" ->
                    LET RECURSIVE elems(_)
                        elems(i) ==
                            IF i > Len(x.v) THEN [bytes |-> S("]"), err |-> NoErr]
                            ELSE With(enc(x.v[i]), LAMBDA e :
                                 IF e.err # NoErr THEN e
                                 ELSE With(elems(i + 1), LAMBDA rest :
                                      IF rest.err # NoErr THEN rest
                                      ELSE [bytes |-> (IF i > 1 THEN S(",") ELSE EmptyStr)
                                                      \o e.bytes \o rest.bytes,
                                            err |-> NoErr]))
                    IN With(elems(1), LAMBDA l :
                            IF l.err # NoErr THEN l
                            ELSE [bytes |-> S("[") \o l.bytes, err |-> NoErr])
              [] x.t = "map" ->
                    With(SelectSeq(KeyOrder, LAMBDA k : k \in DOMAIN x.v), LAMBDA keys :
                        LET RECURSIVE fields(_)
                            fields(i) ==
                                IF i > Len(keys) THEN [bytes |-> S("}"), err |-> NoErr]
                                ELSE With(enc(x.v[keys[i]]), LAMBDA e :
                                     IF e.err # NoErr THEN e
                                     ELSE With(fields(i + 1), LAMBDA rest :
                                          IF rest.err # NoErr THEN rest
                                          ELSE [bytes |-> (IF i > 1 THEN S(",") ELSE EmptyStr)
                                                          \o S("\"") \o keys[i] \o S("\":")
                                                          \o e.bytes \o rest.bytes,
                                                err |-> NoErr]))
                        IN With(fields(1), LAMBDA f :
                                IF f.err # NoErr THEN f
                                ELSE [bytes |-> S("{") \o f.bytes, err |-> NoErr]))
    IN enc(data)

\* mutant: only the first bytes are hashed
Sha256Hex_firstBytes(jsonData) ==
    S("sha256") \o SubSeq(jsonData, 1, IF Len(jsonData) < 4 THEN Len(jsonData) ELSE 4)

\* hex.EncodeToString(sha256(jsonData)): one digest per byte string
Sha256Hex(jsonData) ==
    S("sha256") \o jsonData

\* mutant: the error of json.Marshal is ignored and the bytes are hashed
calculateHash_ignoresError(data) ==
    With(Marshal(data), LAMBDA m : Sha256Hex(m.bytes))

calculateHash(data) ==
    With(Marshal(data), LAMBDA m :
        IF m.err # NoErr THEN EmptyStr ELSE Sha256Hex(m.bytes))

----------------------------------------------------------------------------
(* The unstructured object of a composite resource: a function from keys   *)
(* to values.  The function-sdk-go and fieldpath calls fn.go makes on it.  *)

\* errors.Wrap(err, message)
Wrap(err, message) == message \o S(": ") \o err

Without(m, k) == [j \in (DOMAIN m) \ {k} |-> m[j]]

GetString(obj, k) ==
    IF k \in DOMAIN obj /\ obj[k].t = "str" THEN obj[k].v ELSE EmptyStr

GetKind(obj) == GetString(obj, S("kind"))

GetAPIVersion(obj) == GetString(obj, S("apiVersion"))

GetName(obj) ==
    IF S("metadata") \in DOMAIN obj /\ IsMap(obj[S("metadata")])
    THEN GetString(obj[S("metadata")].v, S("name"))
    ELSE EmptyStr

SetKind(obj, kind) == Put(obj, S("kind"), Str(kind))

SetAPIVersion(obj, version) == Put(obj, S("apiVersion"), Str(version))

\* an empty name removes metadata.name, any other name is stored there
SetName(obj, name) ==
    LET meta == IF S("metadata") \in DOMAIN obj /\ IsMap(obj[S("metadata")])
                THEN obj[S("metadata")].v ELSE EmptyFn
    IN IF name = EmptyStr
       THEN IF S("metadata") \in DOMAIN obj /\ IsMap(obj[S("metadata")])
            THEN Put(obj, S("metadata"), Map(Without(meta, S("name"))))
            ELSE obj
       ELSE Put(obj, S("metadata"), Map(Put(meta, S("name"), Str(name))))

\* Resource.GetValueInto(path, &out) for a one-segment path and out a
\* map[string]interface{}: the field must exist, and its value is marshalled
\* to JSON and unmarshalled into out, so it must hold an object
GetValueInto(obj, path) ==
    IF path \notin DOMAIN obj
    THEN [out |-> EmptyFn, err |-> path \o S(": no such field")]
    ELSE IF Marshal(obj[path]).err # NoErr
         THEN [out |-> EmptyFn,
               err |-> Wrap(Marshal(obj[path]).err, S("cannot marshal value to JSON"))]
         ELSE IF ~IsMap(obj[path])
              THEN [out |-> EmptyFn,
                    err |-> Wrap(S("json: cannot unmarshal into Go value of type map[string]interface {}"),
                                 S("cannot unmarshal value from JSON"))]
              ELSE [out |-> obj[path].v, err |-> NoErr]

\* Resource.SetValue(path, value) for a one-segment path
SetValue(obj, path, value) == Put(obj, path, value)

\* the error of Resource.SetValue(path, value) for a one-segment path: the
\* value is marshalled to JSON before it is stored
SetValueErr(value) ==
    IF Marshal(value).err # NoErr
    THEN Wrap(Marshal(value).err, S("cannot marshal value to JSON"))
    ELSE NoErr

\* request.GetObservedCompositeResource: an absent composite is an empty object
GetObservedCompositeResource(r) ==
    IF r.observed = Nil THEN EmptyFn ELSE r.observed.v

\* request.GetDesiredCompositeResource: an absent composite is an empty object
GetDesiredCompositeResource(r) ==
    IF r.desired.composite = Nil THEN EmptyFn ELSE r.desired.composite.v

\* response.To(req, ttl): the desired state and the context of the request
ResponseTo(r) ==
    [results |-> <<>>, conditions |-> <<>>, desired |-> r.desired, context |-> r.context]

\* response.Fatal(rsp, err)
Fatal(rs, err) ==
    [rs EXCEPT !.results =
        Append(@, [severity |-> "FATAL", message |-> err, target |-> "Composite"])]

\* response.ConditionTrue / ConditionFalse(...).WithMessage(...).TargetCompositeAndClaim()
Condition(rs, type, status, reason, message) ==
    [rs EXCEPT !.conditions =
        Append(@, [type |-> type, status |-> status, reason |-> reason,
                   message |-> message, target |-> "CompositeAndClaim"])]

\* response.SetDesiredCompositeResource(rsp, dxr)
SetDesiredCompositeResource(rs, dxr) ==
    [rs EXCEPT !.desired.composite = Map(dxr)]

----------------------------------------------------------------------------
(* fn.go *)

DefaultApprovalField == <<"status", Dot, "approved">>

DefaultCurrentHashField == <<"status", Dot, "currentHash">>

DefaultApprovalMessage == S("Changes detected. Approval required.")

\* mutant: an input that cannot be decoded ends the invocation without a result
parseInput_silent(r, rs) ==
    IF ~r.input.valid
    THEN [in |-> r.input, rsp |-> rs, err |-> S("cannot decode input")]
    ELSE [in |-> [r.input EXCEPT
                    !.ApprovalField = IF @ = Nil THEN Str(DefaultApprovalField) ELSE @,
                    !.CurrentHashField = IF @ = Nil THEN Str(DefaultCurrentHashField) ELSE @,
                    !.DetailedCondition = IF @ = Nil THEN Bool(TRUE) ELSE @],
          rsp |-> rs,
          err |-> NoErr]

\* input.valid: whether request.GetInput can decode the input
parseInput(r, rs) ==
    IF ~r.input.valid
    THEN [in |-> r.input,
          rsp |-> Fatal(rs, Wrap(S("cannot decode input"), S("cannot get Function input"))),
          err |-> S("cannot decode input")]
    ELSE [in |-> [r.input EXCEPT
                    !.ApprovalField = IF @ = Nil THEN Str(DefaultApprovalField) ELSE @,
                    !.CurrentHashField = IF @ = Nil THEN Str(DefaultCurrentHashField) ELSE @,
                    !.DetailedCondition = IF @ = Nil THEN Bool(TRUE) ELSE @],
          rsp |-> rs,
          err |-> NoErr]

getObservedAndDesired(r) ==
    [oxr |-> GetObservedCompositeResource(r),
     dxr |-> GetDesiredCompositeResource(r),
     err |-> NoErr]

\* mutant: the observed spec is not copied into the desired composite
initializeAndCopyData_keepsSpec(oxr, dxr) ==
    IF GetKind(dxr) = EmptyStr
    THEN SetName(SetKind(SetAPIVersion(dxr, GetAPIVersion(oxr)), GetKind(oxr)),
                 GetName(oxr))
    ELSE dxr

initializeAndCopyData(oxr, dxr) ==
    With(IF GetKind(dxr) = EmptyStr
         THEN SetName(SetKind(SetAPIVersion(dxr, GetAPIVersion(oxr)), GetKind(oxr)),
                      GetName(oxr))
         ELSE dxr, LAMBDA d1 :
    With(GetValueInto(oxr, S("spec")), LAMBDA xrSpec :
        IF xrSpec.err = NoErr /\ DOMAIN xrSpec.out # {}
        THEN SetValue(d1, S("spec"), Map(xrSpec.out))
        ELSE d1))

\* mutant: the observed status is tried first
getStatusFromResources_observedFirst(oxr, dxr) ==
    With(GetValueInto(oxr, S("status")), LAMBDA fromObserved :
        IF fromObserved.err = NoErr /\ DOMAIN fromObserved.out # {}
        THEN fromObserved.out
        ELSE GetValueInto(dxr, S("status")).out)

getStatusFromResources(oxr, dxr) ==
    With(GetValueInto(dxr, S("status")), LAMBDA fromDesired :
        IF GetKind(dxr) # EmptyStr /\ fromDesired.err = NoErr
           /\ DOMAIN fromDesired.out # {}
        THEN fromDesired.out
        ELSE GetValueInto(oxr, S("status")).out)

getXRAndStatus(r) ==
    With(getObservedAndDesired(r), LAMBDA od :
        IF od.err # NoErr
        THEN [xrStatus |-> EmptyFn, dxr |-> EmptyFn, err |-> od.err]
        ELSE With(initializeAndCopyData(od.oxr, od.dxr), LAMBDA dxr :
                  [xrStatus |-> getStatusFromResources(od.oxr, dxr), dxr |-> dxr,
                   err |-> NoErr]))

propagateDesiredXR(r, rs) ==
    With(getXRAndStatus(r), LAMBDA g :
        IF g.err # NoErr
        THEN [rsp |-> Fatal(rs, g.err), err |-> g.err]
        \* an error of this write is logged and returned, the response is left as it is
        ELSE IF DOMAIN g.xrStatus # {} /\ SetValueErr(Map(g.xrStatus)) # NoErr
        THEN [rsp |-> rs, err |-> SetValueErr(Map(g.xrStatus))]
        ELSE [rsp |-> SetDesiredCompositeResource(rs,
                          IF DOMAIN g.xrStatus # {}
                          THEN SetValue(g.dxr, S("status"), Map(g.xrStatus))
                          ELSE g.dxr),
              err |-> NoErr])

preserveContext(r, rs) ==
    IF r.context # Nil THEN [rs EXCEPT !.context = r.context] ELSE rs

initializeResponse(r, rs) ==
    With(propagateDesiredXR(r, rs), LAMBDA p :
        IF p.err # NoErr THEN p
        ELSE [rsp |-> preserveContext(r, p.rsp), err |-> NoErr])

initializeFunction(r, rs) ==
    With(parseInput(r, rs), LAMBDA p :
        IF p.err # NoErr THEN [in |-> p.in, rsp |-> p.rsp, err |-> p.err]
        ELSE With(initializeResponse(r, p.rsp), LAMBDA i :
                  [in |-> p.in, rsp |-> i.rsp, err |-> i.err]))

\* mutant: a monitored field that is absent is hashed as null
extractDataToHash_hashesAbsent(r, inp, rs) ==
    With(GetDesiredCompositeResource(r), LAMBDA dxr :
    With(SplitN2(inp.DataField), LAMBDA parts :
        IF Len(parts) # 2
        THEN [data |-> Nil,
              rsp |-> Fatal(rs, S("invalid DataField format: ") \o inp.DataField
                                \o S(", expected section.field (e.g. spec.resources)")),
              err |-> S("invalid DataField format")]
        ELSE
        LET section == parts[1]
            field == parts[2]
        IN With(GetValueInto(dxr, section), LAMBDA sectionData :
           IF sectionData.err # NoErr
           THEN [data |-> Nil,
                 rsp |-> Fatal(rs, Wrap(sectionData.err,
                                        S("cannot get ") \o section \o S(" from desired XR"))),
                 err |-> sectionData.err]
           ELSE With(GetNestedValue(sectionData.out, field), LAMBDA got :
                IF got.err # NoErr
                THEN [data |-> Nil,
                      rsp |-> Fatal(rs, Wrap(got.err, S("error accessing field ") \o field)),
                      err |-> got.err]
                ELSE [data |-> got.value, rsp |-> rs, err |-> NoErr]))))

\* mutant: the whole section is hashed once the field is found in it
extractDataToHash_wholeSection(r, inp, rs) ==
    With(GetDesiredCompositeResource(r), LAMBDA dxr :
    With(SplitN2(inp.DataField), LAMBDA parts :
        IF Len(parts) # 2
        THEN [data |-> Nil,
              rsp |-> Fatal(rs, S("invalid DataField format: ") \o inp.DataField
                                \o S(", expected section.field (e.g. spec.resources)")),
              err |-> S("invalid DataField format")]
        ELSE
        LET section == parts[1]
            field == parts[2]
        IN With(GetValueInto(dxr, section), LAMBDA sectionData :
           IF sectionData.err # NoErr
           THEN [data |-> Nil,
                 rsp |-> Fatal(rs, Wrap(sectionData.err,
                                        S("cannot get ") \o section \o S(" from desired XR"))),
                 err |-> sectionData.err]
           ELSE With(GetNestedValue(sectionData.out, field), LAMBDA got :
                IF got.err # NoErr
                THEN [data |-> Nil,
                      rsp |-> Fatal(rs, Wrap(got.err, S("error accessing field ") \o field)),
                      err |-> got.err]
                ELSE IF ~got.exists
                THEN [data |-> Nil,
                      rsp |-> Fatal(rs, S("field ") \o section \o S(".") \o field
                                        \o S(" not found in resource")),
                      err |-> S("field not found")]
                ELSE [data |-> Map(sectionData.out), rsp |-> rs, err |-> NoErr]))))

\* mutant: a DataField that does not split selects the whole document
extractDataToHash_wholeDocument(r, inp, rs) ==
    With(GetDesiredCompositeResource(r), LAMBDA dxr :
    With(SplitN2(inp.DataField), LAMBDA parts :
        IF Len(parts) # 2
        THEN [data |-> Map(dxr), rsp |-> rs, err |-> NoErr]
        ELSE
        LET section == parts[1]
            field == parts[2]
        IN With(GetValueInto(dxr, section), LAMBDA sectionData :
           IF sectionData.err # NoErr
           THEN [data |-> Nil,
                 rsp |-> Fatal(rs, Wrap(sectionData.err,
                                        S("cannot get ") \o section \o S(" from desired XR"))),
                 err |-> sectionData.err]
           ELSE With(GetNestedValue(sectionData.out, field), LAMBDA got :
                IF got.err # NoErr
                THEN [data |-> Nil,
                      rsp |-> Fatal(rs, Wrap(got.err, S("error accessing field ") \o field)),
                      err |-> got.err]
                ELSE IF ~got.exists
                THEN [data |-> Nil,
                      rsp |-> Fatal(rs, S("field ") \o section \o S(".") \o field
                                        \o S(" not found in resource")),
                      err |-> S("field not found")]
                ELSE [data |-> got.value, rsp |-> rs, err |-> NoErr]))))

\* mutant: the monitored field is taken from the observed composite
extractDataToHash_fromObserved(r, inp, rs) ==
    With(GetObservedCompositeResource(r), LAMBDA dxr :
    With(SplitN2(inp.DataField), LAMBDA parts :
        IF Len(parts) # 2
        THEN [data |-> Nil,
              rsp |-> Fatal(rs, S("invalid DataField format: ") \o inp.DataField
                                \o S(", expected section.field (e.g. spec.resources)")),
              err |-> S("invalid DataField format")]
        ELSE
        LET section == parts[1]
            field == parts[2]
        IN With(GetValueInto(dxr, section), LAMBDA sectionData :
           IF sectionData.err # NoErr
           THEN [data |-> Nil,
                 rsp |-> Fatal(rs, Wrap(sectionData.err,
                                        S("cannot get ") \o section \o S(" from desired XR"))),
                 err |-> sectionData.err]
           ELSE With(GetNestedValue(sectionData.out, field), LAMBDA got :
                IF got.err # NoErr
                THEN [data |-> Nil,
                      rsp |-> Fatal(rs, Wrap(got.err, S("error accessing field ") \o field)),
                      err |-> got.err]
                ELSE IF ~got.exists
                THEN [data |-> Nil,
                      rsp |-> Fatal(rs, S("field ") \o section \o S(".") \o field
                                        \o S(" not found in resource")),
                      err |-> S("field not found")]
                ELSE [data |-> got.value, rsp |-> rs, err |-> NoErr]))))

extractDataToHash(r, inp, rs) ==
    With(GetDesiredCompositeResource(r), LAMBDA dxr :
    With(SplitN2(inp.DataField), LAMBDA parts :
        IF Len(parts) # 2
        THEN [data |-> Nil,
              rsp |-> Fatal(rs, S("invalid DataField format: ") \o inp.DataField
                                \o S(", expected section.field (e.g. spec.resources)")),
              err |-> S("invalid DataField format")]
        ELSE
        LET section == parts[1]
            field == parts[2]
        IN With(GetValueInto(dxr, section), LAMBDA sectionData :
           IF sectionData.err # NoErr
           THEN [data |-> Nil,
                 rsp |-> Fatal(rs, Wrap(sectionData.err,
                                        S("cannot get ") \o section \o S(" from desired XR"))),
                 err |-> sectionData.err]
           ELSE With(GetNestedValue(sectionData.out, field), LAMBDA got :
                IF got.err # NoErr
                THEN [data |-> Nil,
                      rsp |-> Fatal(rs, Wrap(got.err, S("error accessing field ") \o field)),
                      err |-> got.err]
                ELSE IF ~got.exists
                THEN [data |-> Nil,
                      rsp |-> Fatal(rs, S("field ") \o section \o S(".") \o field
                                        \o S(" not found in resource")),
                      err |-> S("field not found")]
                ELSE [data |-> got.value, rsp |-> rs, err |-> NoErr]))))

\* mutant: a stored hash that is not a string counts as no stored hash
getCurrentHash_lenient(r, inp, rs) ==
    With(getXRAndStatus(r), LAMBDA g :
        IF g.err # NoErr
        THEN [hash |-> EmptyStr, rsp |-> Fatal(rs, g.err), err |-> g.err]
        ELSE
        With(TrimPrefix(inp.CurrentHashField.v, StatusPrefix), LAMBDA hashField :
        With(GetNestedValue(g.xrStatus, hashField), LAMBDA got :
            IF got.err # NoErr
            THEN [hash |-> EmptyStr,
                  rsp |-> Fatal(rs, Wrap(got.err, S("error accessing current hash field ")
                                                  \o hashField)),
                  err |-> got.err]
            ELSE IF ~got.exists
            THEN [hash |-> EmptyStr, rsp |-> rs, err |-> NoErr]
            ELSE IF got.value.t # "str"
            THEN [hash |-> EmptyStr, rsp |-> rs, err |-> NoErr]
            ELSE [hash |-> got.value.v, rsp |-> rs, err |-> NoErr])))

getCurrentHash(r, inp, rs) ==
    With(getXRAndStatus(r), LAMBDA g :
        IF g.err # NoErr
        THEN [hash |-> EmptyStr, rsp |-> Fatal(rs, g.err), err |-> g.err]
        ELSE
        With(TrimPrefix(inp.CurrentHashField.v, StatusPrefix), LAMBDA hashField :
        With(GetNestedValue(g.xrStatus, hashField), LAMBDA got :
            IF got.err # NoErr
            THEN [hash |-> EmptyStr,
                  rsp |-> Fatal(rs, Wrap(got.err, S("error accessing current hash field ")
                                                  \o hashField)),
                  err |-> got.err]
            ELSE IF ~got.exists
            THEN [hash |-> EmptyStr, rsp |-> rs, err |-> NoErr]
            ELSE IF got.value.t # "str"
            THEN [hash |-> EmptyStr,
                  rsp |-> Fatal(rs, S("current hash field ") \o hashField
                                    \o S(" is not a string")),
                  err |-> S("current hash field is not a string")]
            ELSE [hash |-> got.value.v, rsp |-> rs, err |-> NoErr])))

checkApprovalStatus(r, inp, rs) ==
    With(getXRAndStatus(r), LAMBDA g :
        IF g.err # NoErr
        THEN [approved |-> FALSE, rsp |-> Fatal(rs, g.err), err |-> g.err]
        ELSE
        With(TrimPrefix(inp.ApprovalField.v, StatusPrefix), LAMBDA approvalField :
        With(GetNestedValue(g.xrStatus, approvalField), LAMBDA got :
            IF got.err # NoErr
            THEN [approved |-> FALSE,
                  rsp |-> Fatal(rs, Wrap(got.err, S("error accessing approval field ")
                                                  \o approvalField)),
                  err |-> got.err]
            ELSE IF ~got.exists
            THEN [approved |-> FALSE, rsp |-> rs, err |-> NoErr]
            ELSE IF got.value.t # "bool"
            THEN [approved |-> FALSE,
                  rsp |-> Fatal(rs, S("approval field ") \o approvalField
                                    \o S(" is not a boolean")),
                  err |-> S("approval field is not a boolean")]
            ELSE [approved |-> got.value.v, rsp |-> rs, err |-> NoErr])))

processHashingAndApproval(r, inp, rs) ==
    LET failed(rs1, e) == [newHash |-> EmptyStr, currentHash |-> EmptyStr,
                           approved |-> FALSE, rsp |-> rs1, err |-> e]
    IN With(extractDataToHash(r, inp, rs), LAMBDA x :
       IF x.err # NoErr THEN failed(x.rsp, x.err)
       ELSE
       With(calculateHash(x.data), LAMBDA newHash :
       With(getCurrentHash(r, inp, x.rsp), LAMBDA c :
           IF c.err # NoErr THEN failed(c.rsp, c.err)
           ELSE With(checkApprovalStatus(r, inp, c.rsp), LAMBDA a :
                IF a.err # NoErr THEN failed(a.rsp, a.err)
                ELSE [newHash |-> newHash, currentHash |-> c.hash,
                      approved |-> a.approved, rsp |-> a.rsp, err |-> NoErr]))))

\* mutant: an empty stored hash leaves nothing to compare
needsApproval_emptyContinues(approved, currentHash, newHash) ==
    ~approved /\ currentHash # EmptyStr /\ currentHash # newHash

\* mutant: the approval flag is not consulted
needsApproval_ignoresApproval(approved, currentHash, newHash) ==
    currentHash = EmptyStr \/ currentHash # newHash

\* mutant: an empty stored hash is compared like any other
needsApproval_hashesDiffer(approved, currentHash, newHash) ==
    ~approved /\ currentHash # newHash

\* mutant: the comparison of the two hashes is inverted
needsApproval_sameHash(approved, currentHash, newHash) ==
    ~approved /\ (currentHash = EmptyStr \/ currentHash = newHash)

needsApproval(approved, currentHash, newHash) ==
    ~approved /\ (currentHash = EmptyStr \/ currentHash # newHash)

\* mutant: a halt stores the hash it computed at the current hash field
handleUnapprovedChanges_storesHash(inp, rs, currentHash, newHash) ==
    With(IF inp.ApprovalMessage # Nil THEN inp.ApprovalMessage.v
         ELSE DefaultApprovalMessage, LAMBDA msg :
    With(SetNestedValue(IF rs.desired.composite = Nil THEN EmptyFn
                        ELSE GetValueInto(rs.desired.composite.v, S("status")).out,
                        TrimPrefix(inp.CurrentHashField.v, StatusPrefix),
                        Str(newHash)), LAMBDA h :
        Fatal(Condition(SetDesiredCompositeResource(rs,
                            SetValue(IF rs.desired.composite = Nil THEN EmptyFn
                                     ELSE rs.desired.composite.v,
                                     S("status"), Map(h.root))),
                        "ApprovalRequired", "False", "WaitingForApproval", msg),
              msg)))

\* mutant: a halt drops the desired composed resources
handleUnapprovedChanges_dropsResources(inp, rs, currentHash, newHash) ==
    With(IF inp.ApprovalMessage # Nil THEN inp.ApprovalMessage.v
         ELSE DefaultApprovalMessage, LAMBDA msg :
        Fatal(Condition([rs EXCEPT !.desired.resources = EmptyMap],
                        "ApprovalRequired", "False", "WaitingForApproval", msg),
              msg))

\* mutant: the fatal result carries the base message, as the log line does
handleUnapprovedChanges_baseMessage(inp, rs, currentHash, newHash) ==
    With(IF inp.ApprovalMessage # Nil THEN inp.ApprovalMessage.v
         ELSE DefaultApprovalMessage, LAMBDA msg :
    With(IF inp.DetailedCondition # Nil /\ inp.DetailedCondition.v
         THEN msg \o S("\nCurrent hash: ") \o newHash \o S("\n")
                  \o S("Approved hash: ") \o currentHash \o S("\n")
                  \o S("Approve this change by setting ") \o inp.ApprovalField.v
                  \o S(" to true")
         ELSE msg, LAMBDA detailedMsg :
        Fatal(Condition(rs, "ApprovalRequired", "False", "WaitingForApproval",
                        detailedMsg),
              msg)))

handleUnapprovedChanges(inp, rs, currentHash, newHash) ==
    With(IF inp.ApprovalMessage # Nil THEN inp.ApprovalMessage.v
         ELSE DefaultApprovalMessage, LAMBDA msg :
    With(IF inp.DetailedCondition # Nil /\ inp.DetailedCondition.v
         THEN msg \o S("\nCurrent hash: ") \o newHash \o S("\n")
                  \o S("Approved hash: ") \o currentHash \o S("\n")
                  \o S("Approve this change by setting ") \o inp.ApprovalField.v
                  \o S(" to true")
         ELSE msg, LAMBDA detailedMsg :
        Fatal(Condition(rs, "ApprovalRequired", "False", "WaitingForApproval",
                        detailedMsg),
              detailedMsg)))

\* mutant: the approval flag is not reset
saveCurrentHash_keepsFlag(r, inp, hash, rs) ==
    With(GetDesiredCompositeResource(r), LAMBDA dxr :
    With(GetValueInto(dxr, S("status")), LAMBDA got :
    With(IF got.err # NoErr THEN EmptyFn ELSE got.out, LAMBDA xrStatus :
    With(TrimPrefix(inp.CurrentHashField.v, StatusPrefix), LAMBDA hashField :
    With(SetNestedValue(xrStatus, hashField, Str(hash)), LAMBDA h :
        IF h.err # NoErr
        THEN [rsp |-> Fatal(rs, Wrap(h.err, S("cannot set current hash field ")
                                            \o hashField)),
              err |-> h.err]
        ELSE [rsp |-> SetDesiredCompositeResource(rs,
                          SetValue(dxr, S("status"), Map(h.root))),
              err |-> NoErr])))))

\* mutant: the approval flag is flipped: reset when it was true, set otherwise
saveCurrentHash_flipsFlag(r, inp, hash, rs) ==
    With(GetDesiredCompositeResource(r), LAMBDA dxr :
    With(GetValueInto(dxr, S("status")), LAMBDA got :
    With(IF got.err # NoErr THEN EmptyFn ELSE got.out, LAMBDA xrStatus :
    With(TrimPrefix(inp.CurrentHashField.v, StatusPrefix), LAMBDA hashField :
    With(SetNestedValue(xrStatus, hashField, Str(hash)), LAMBDA h :
        IF h.err # NoErr
        THEN [rsp |-> Fatal(rs, Wrap(h.err, S("cannot set current hash field ")
                                            \o hashField)),
              err |-> h.err]
        ELSE
        With(TrimPrefix(inp.ApprovalField.v, StatusPrefix), LAMBDA approvalField :
        \* an error of this second write is logged and dropped
        With(SetNestedValue(h.root, approvalField,
                            Bool(GetNestedValue(h.root, approvalField).value # Bool(TRUE))),
             LAMBDA a :
            IF SetValueErr(Map(a.root)) # NoErr
            THEN [rsp |-> Fatal(rs, Wrap(SetValueErr(Map(a.root)),
                            S("cannot write updated status back into desired composite resource"))),
                  err |-> SetValueErr(Map(a.root))]
            ELSE [rsp |-> SetDesiredCompositeResource(rs,
                              SetValue(dxr, S("status"), Map(a.root))),
                  err |-> NoErr])))))))

\* mutant: a failed write of the approval flag ends the commit like a failed
\* write of the hash
saveCurrentHash_surfacesFlag(r, inp, hash, rs) ==
    With(GetDesiredCompositeResource(r), LAMBDA dxr :
    With(GetValueInto(dxr, S("status")), LAMBDA got :
    With(IF got.err # NoErr THEN EmptyFn ELSE got.out, LAMBDA xrStatus :
    With(TrimPrefix(inp.CurrentHashField.v, StatusPrefix), LAMBDA hashField :
    With(SetNestedValue(xrStatus, hashField, Str(hash)), LAMBDA h :
        IF h.err # NoErr
        THEN [rsp |-> Fatal(rs, Wrap(h.err, S("cannot set current hash field ")
                                            \o hashField)),
              err |-> h.err]
        ELSE
        With(TrimPrefix(inp.ApprovalField.v, StatusPrefix), LAMBDA approvalField :
        With(SetNestedValue(h.root, approvalField, Bool(FALSE)), LAMBDA a :
            IF a.err # NoErr
            THEN [rsp |-> Fatal(rs, Wrap(a.err, S("cannot reset approval field ")
                                                \o approvalField)),
                  err |-> a.err]
            ELSE [rsp |-> SetDesiredCompositeResource(rs,
                              SetValue(dxr, S("status"), Map(a.root))),
                  err |-> NoErr])))))))

saveCurrentHash(r, inp, hash, rs) ==
    With(GetDesiredCompositeResource(r), LAMBDA dxr :
    With(GetValueInto(dxr, S("status")), LAMBDA got :
    With(IF got.err # NoErr THEN EmptyFn ELSE got.out, LAMBDA xrStatus :
    With(TrimPrefix(inp.CurrentHashField.v, StatusPrefix), LAMBDA hashField :
    With(SetNestedValue(xrStatus, hashField, Str(hash)), LAMBDA h :
        IF h.err # NoErr
        THEN [rsp |-> Fatal(rs, Wrap(h.err, S("cannot set current hash field ")
                                            \o hashField)),
              err |-> h.err]
        ELSE
        With(TrimPrefix(inp.ApprovalField.v, StatusPrefix), LAMBDA approvalField :
        \* an error of this second write is logged and dropped
        With(SetNestedValue(h.root, approvalField, Bool(FALSE)), LAMBDA a :
            IF SetValueErr(Map(a.root)) # NoErr
            THEN [rsp |-> Fatal(rs, Wrap(SetValueErr(Map(a.root)),
                            S("cannot write updated status back into desired composite resource"))),
                  err |-> SetValueErr(Map(a.root))]
            ELSE [rsp |-> SetDesiredCompositeResource(rs,
                              SetValue(dxr, S("status"), Map(a.root))),
                  err |-> NoErr])))))))

\* mutant: the success condition is set before the hash is saved
handleApprovedChanges_successFirst(r, inp, rs, newHash) ==
    saveCurrentHash(r, inp, newHash,
                    Condition(rs, "FunctionSuccess", "True", "Success",
                              S("Approved successfully")))

handleApprovedChanges(r, inp, rs, newHash) ==
    With(saveCurrentHash(r, inp, newHash, rs), LAMBDA s :
        IF s.err # NoErr THEN s
        ELSE [rsp |-> Condition(s.rsp, "FunctionSuccess", "True", "Success",
                                S("Approved successfully")),
              err |-> NoErr])

RunFunction(r) ==
    With(initializeFunction(r, ResponseTo(r)), LAMBDA i :
        IF i.err # NoErr THEN i.rsp
        ELSE With(processHashingAndApproval(r, i.in, i.rsp), LAMBDA p :
             IF p.err # NoErr THEN p.rsp
             ELSE IF needsApproval(p.approved, p.currentHash, p.newHash)
             THEN handleUnapprovedChanges(i.in, p.rsp, p.currentHash, p.newHash)
             ELSE handleApprovedChanges(r, i.in, p.rsp, p.newHash).rsp))

\* mutant: the error of a helper is returned to the caller
RunFunctionError_propagates(r) ==
    With(initializeFunction(r, ResponseTo(r)), LAMBDA i :
        IF i.err # NoErr THEN i.err
        ELSE With(processHashingAndApproval(r, i.in, i.rsp), LAMBDA p :
             IF p.err # NoErr THEN p.err
             ELSE IF needsApproval(p.approved, p.currentHash, p.newHash)
             THEN NoErr
             ELSE handleApprovedChanges(r, i.in, p.rsp, p.newHash).err))

\* the error RunFunction(r) returns next to its response: nil at every return
RunFunctionError(r) ==
    With(initializeFunction(r, ResponseTo(r)), LAMBDA i :
        IF i.err # NoErr THEN NoErr
        ELSE With(processHashingAndApproval(r, i.in, i.rsp), LAMBDA p :
             IF p.err # NoErr THEN NoErr
             ELSE IF needsApproval(p.approved, p.currentHash, p.newHash)
             THEN NoErr
             ELSE IF handleApprovedChanges(r, i.in, p.rsp, p.newHash).err # NoErr
             THEN NoErr
             ELSE NoErr))

----------------------------------------------------------------------------
(* What a response says *)

HasFatal(rs) == \E i \in 1..Len(rs.results) : rs.results[i].severity = "FATAL"

HasCondition(rs, type) == \E i \in 1..Len(rs.conditions) : rs.conditions[i].type = type

\* the gate halted: approval is required
Halted(rs) == HasCondition(rs, "ApprovalRequired")

\* the gate let the pipeline continue
Continued(rs) == HasCondition(rs, "FunctionSuccess") /\ ~HasFatal(rs)

\* the status of the desired composite of a response or request state
DesiredStatus(desired) ==
    IF desired.composite = Nil THEN EmptyFn
    ELSE GetValueInto(desired.composite.v, S("status")).out

----------------------------------------------------------------------------
(* Inputs and documents *)

Input(dataField, approvalField, currentHashField, detailedCondition, approvalMessage) ==
    [valid |-> TRUE, DataField |-> dataField, ApprovalField |-> approvalField,
     CurrentHashField |-> currentHashField, DetailedCondition |-> detailedCondition,
     ApprovalMessage |-> approvalMessage]

DataFieldResources == <<"spec", Dot, "resources">>

\* only dataField given: every default applies
InputDefault == Input(DataFieldResources, Nil, Nil, Nil, Nil)

\* both status fields below status.gate, short messages
InputNested ==
    Input(DataFieldResources, Str(<<"status", Dot, "gate", Dot, "approved">>),
          Str(<<"status", Dot, "gate", Dot, "hash">>), Bool(FALSE),
          Str(S("Cluster changes require admin approval")))

\* the hash below status.gate, the flag at the top of status
InputHashNested ==
    Input(DataFieldResources, Str(DefaultApprovalField),
          Str(<<"status", Dot, "gate", Dot, "hash">>), Bool(TRUE), Nil)

\* the flag below status.gate, the hash at the top of status
InputFlagNested ==
    Input(DataFieldResources, Str(<<"status", Dot, "gate", Dot, "approved">>),
          Str(DefaultCurrentHashField), Nil, Nil)

\* field names given without the status. prefix
InputUnprefixed ==
    Input(DataFieldResources, Str(S("approved")), Str(S("currentHash")), Bool(TRUE),
          Str(S("Cluster changes require admin approval")))

\* the flag path is a prefix of the hash path
InputFlagAboveHash ==
    Input(DataFieldResources, Str(<<"status", Dot, "gate">>),
          Str(<<"status", Dot, "gate", Dot, "hash">>), Nil, Nil)

\* the hash path is a prefix of the flag path
InputHashAboveFlag ==
    Input(DataFieldResources, Str(<<"status", Dot, "gate", Dot, "approved">>),
          Str(<<"status", Dot, "gate">>), Nil, Nil)

\* an input without dataField
InputNoDataField == Input(EmptyStr, Nil, Nil, Nil, Nil)

\* a dataField of one segment
InputOneSegment == Input(S("spec"), Nil, Nil, Nil, Nil)

\* an input request.GetInput cannot decode
InputMalformed == [InputDefault EXCEPT !.valid = FALSE]

\* the monitored content number i
Content(i) == Map([k \in {S("test")} |-> Str(<<"data", ToString(i)>>)])

Contents == {Content(i) : i \in 1..NumContents}

\* a content json.Marshal rejects
ContentNaN == Map([k \in {S("test")} |-> NaN])

\* the object with the fields whose value is not Nil
Object(fields) ==
    LET keys == {k \in DOMAIN fields : fields[k] # Nil}
    IN [k \in keys |-> fields[k]]

Fields(k1, v1, k2, v2, k3, v3) ==
    [k \in {S(k1), S(k2), S(k3)} |-> IF k = S(k1) THEN v1 ELSE IF k = S(k2) THEN v2 ELSE v3]

\* a status subtree; Nil leaves the field out
Status(approved, currentHash, gate) ==
    Object(Fields("approved", approved, "currentHash", currentHash, "gate", gate))

\* a composite resource; Nil leaves spec or status out
Composite(kind, spec, status) ==
    Object([k \in {S("apiVersion"), S("kind"), S("metadata"), S("spec"), S("status")} |->
              CASE k = S("apiVersion") -> IF kind = EmptyStr THEN Nil ELSE Str(S("example.org/v1"))
                [] k = S("kind") -> IF kind = EmptyStr THEN Nil ELSE Str(kind)
                [] k = S("metadata") -> IF kind = EmptyStr THEN Nil
                                        ELSE Map([n \in {S("name")} |-> Str(S("test-xr"))])
                [] k = S("spec") -> spec
                [] k = S("status") -> status])

SpecOf(content) == Map(Object(Fields("resources", content, "region", Str(S("us-west-2")), "a", Nil)))

NoRequest ==
    [input |-> InputDefault, observed |-> Nil, observedResources |-> EmptyMap,
     desired |-> [composite |-> Nil, resources |-> EmptyMap], context |-> Nil]

NoResponse == ResponseTo(NoRequest)

----------------------------------------------------------------------------
(* One invocation on an arbitrary request *)

T == Bool(TRUE)

F == Bool(FALSE)

HashOf(content) == Str(calculateHash(content))

FlagValues == {Nil, T, F, Str(S("yes"))}

HashValues == {Nil, Str(EmptyStr), Num("1")} \cup {HashOf(c) : c \in Contents}

GateValues ==
    {Str(S("x"))} \cup
    {Map(Object(Fields("approved", f, "hash", h, "a", Nil))) :
        f \in {Nil, T, F}, h \in {Nil, HashOf(Content(1))}}

RunStatuses ==
    {Nil} \cup
    {Map(Status(f, h, Nil)) : f \in FlagValues, h \in HashValues} \cup
    {Map(Status(f, h, g)) : f \in {Nil, T, F}, h \in {Nil, HashOf(Content(1))},
                            g \in GateValues}

RunSpecs ==
    {Nil, Str(S("not a map")), SpecOf(Nil)} \cup {SpecOf(c) : c \in Contents \cup {ContentNaN}}

ObservedStatuses ==
    {Nil, Map(Status(T, HashOf(Content(1)), Nil)), Map(Status(F, HashOf(Content(1)), Nil)),
     Map(Status(Nil, Nil, Map(Object(Fields("approved", T, "hash", Nil, "a", Nil)))))}

Kinds == {<<S("XR"), S("XR")>>, <<EmptyStr, S("XR")>>, <<EmptyStr, EmptyStr>>}

RunInputs ==
    {InputDefault, InputNested, InputHashNested, InputFlagNested, InputUnprefixed,
     InputFlagAboveHash, InputHashAboveFlag, InputNoDataField, InputOneSegment,
     InputMalformed}

Request(input, observed, desired) ==
    [input |-> input, observed |-> observed, observedResources |-> EmptyMap,
     desired |-> [composite |-> desired, resources |-> EmptyMap], context |-> Nil]

\* a composed resource
ComposedResource(param) ==
    Map(Object([k \in {S("apiVersion"), S("kind"), S("spec")} |->
                  CASE k = S("apiVersion") -> Str(S("example.org/v1"))
                    [] k = S("kind") -> Str(S("ComposedResource"))
                    [] k = S("spec") -> Map([j \in {S("param")} |-> Str(S(param))])]))

\* the composed resources a pipeline step proposes, and the ones observed
ProposedResources == Map([k \in {S("test-resource")} |-> ComposedResource("value")])

ObservedResources == Map([k \in {S("test-resource")} |-> ComposedResource("observed-value")])

ResourceSets == {EmptyMap, ProposedResources, ObservedResources}

\* the request r with observed and desired composed resources
WithResources(r, observed, desired) ==
    [r EXCEPT !.observedResources = observed, !.desired.resources = desired]

\* observed specs that initializeAndCopyData does not copy
ObservedSpecs == {Nil, Str(S("not a map")), EmptyMap, SpecOf(ContentNaN)}

\* the statuses tried together with every kind and observed status
SmallStatuses ==
    {Nil, EmptyMap, Map(Status(T, HashOf(Content(1)), Nil)),
     Map(Status(F, HashOf(Content(1)), Nil)), Map(Status(F, Nil, Nil)),
     Map(Status(Nil, Nil, Map(Object(Fields("approved", T, "hash", HashOf(Content(1)),
                                            "a", Nil)))))}

\* a status holding a value that JSON cannot hold
StatusNaN == Map(Object(Fields("approved", T, "hash", Nil, "a", NaN)))

RunRequests ==
    {Request(i, Map(Composite(S("XR"), SpecOf(Content(1)), Nil)),
             Map(Composite(S("XR"), sp, st))) :
        i \in RunInputs, sp \in RunSpecs, st \in RunStatuses}
    \cup
    {Request(i, Map(Composite(k[2], SpecOf(Content(1)), os)), Map(Composite(k[1], sp, st))) :
        i \in RunInputs, k \in Kinds, os \in ObservedStatuses, sp \in RunSpecs,
        st \in SmallStatuses}
    \cup
    {Request(i, Map(Composite(S("XR"), SpecOf(Content(1)), os)), Nil) :
        i \in RunInputs, os \in ObservedStatuses}
    \cup
    {Request(InputDefault, Map(Composite(S("XR"), osp, Nil)),
             Map(Composite(S("XR"), SpecOf(c), st))) :
        osp \in ObservedSpecs, c \in Contents, st \in SmallStatuses}
    \cup
    {WithResources(Request(i, Map(Composite(S("XR"), SpecOf(Content(1)), Nil)),
                           Map(Composite(S("XR"), SpecOf(c), st))), o, d) :
        i \in {InputDefault, InputNested}, c \in Contents, st \in SmallStatuses,
        o \in ResourceSets, d \in ResourceSets \ {EmptyMap}}
    \cup
    {Request(i, Map(Composite(k[2], SpecOf(Content(1)), os)),
             Map(Composite(k[1], SpecOf(Content(1)), st))) :
        i \in {InputDefault, InputNested}, k \in Kinds,
        os \in {Nil, StatusNaN, Map(Status(T, HashOf(Content(1)), Nil))},
        st \in {Nil, StatusNaN, Map(Status(T, HashOf(Content(1)), Nil))}}
    \cup
    {Request(i, Map(Composite(S("XR"), SpecOf(Content(1)), Map(Status(Nil, Nil, g)))),
             Map(Composite(S("XR"), SpecOf(c), Nil))) :
        i \in {InputFlagAboveHash, InputHashAboveFlag}, g \in {T, HashOf(Content(1))},
        c \in Contents}

\* nothing has happened yet
NoHistory ==
    [halted |-> FALSE,            \* an invocation halted, and no approval since
     continued |-> FALSE,         \* an invocation has continued
     committed |-> EmptyStr,      \* the hash the latest Continue committed
     granted |-> FALSE,           \* the flag was set to true after the latest Continue
     grantedAfterHalt |-> FALSE,  \* halted, then approved, and no invocation since
     approvedContent |-> Nil]     \* the monitored content when the flag was last set

InitRun ==
    /\ req \in RunRequests
    /\ in = req.input
    /\ xr = EmptyFn
    /\ rsp = NoResponse
    /\ ev = "init"
    /\ hist = [now |-> NoHistory, before |-> NoHistory]

Run ==
    /\ ev = "init"
    /\ rsp' = RunFunction(req)
    /\ ev' = "run"
    /\ UNCHANGED <<in, xr, req, hist>>

NextRun == Run

SpecRun == InitRun /\ [][NextRun]_vars

----------------------------------------------------------------------------
(* One invocation on a monitored field of mappings, sequences and leaves *)

\* json.Unmarshal of an object written as key/value pairs in some order into
\* a map[string]interface{}: the order is not kept, a later pair wins
Decode(pairs) ==
    LET RECURSIVE put(_)
        put(n) == IF n = 0 THEN EmptyFn ELSE Put(put(n - 1), pairs[n].k, pairs[n].x)
    IN Map(put(Len(pairs)))

\* monitored contents: one or two keys over leaves, sequences of two leaves
\* and mappings of two leaves
HashContents ==
    LET Leaves == {Str(S("x")), Str(S("y")), Num("1"), Bool(TRUE)}
        Inner == Leaves \cup {List(<<l1, l2>>) : l1, l2 \in Leaves}
                        \cup {Decode(<<[k |-> S("a"), x |-> l1], [k |-> S("b"), x |-> l2]>>) :
                                 l1, l2 \in Leaves}
    IN {Decode(<<[k |-> S("a"), x |-> v]>>) : v \in Inner}
       \cup {Decode(<<[k |-> S("a"), x |-> v], [k |-> S("b"), x |-> l]>>) :
                v \in Inner, l \in Leaves}

InitHash ==
    /\ req \in {Request(InputDefault, Map(Composite(S("XR"), SpecOf(Content(1)), Nil)),
                        Map(Composite(S("XR"), SpecOf(c), Nil))) : c \in HashContents}
    /\ in = req.input
    /\ xr = EmptyFn
    /\ rsp = NoResponse
    /\ ev = "init"
    /\ hist = [now |-> NoHistory, before |-> NoHistory]

SpecHash == InitHash /\ [][NextRun]_vars

----------------------------------------------------------------------------
(* One invocation on status documents up to three mappings deep, with the  *)
(* hash and the flag at paths of one to three segments                      *)

\* status documents over the keys a, b, c and h: at a a leaf, or a mapping
\* that holds at b a leaf or a mapping that holds a leaf at c, and that may
\* hold a leaf at c beside b; at h a leaf
PathDocuments ==
    LET Leaves == {T, HashOf(Content(1)), Str(S("x"))}
        AtB == Leaves \cup {EmptyMap} \cup {Map([k \in {S("c")} |-> l]) : l \in Leaves}
        AtA == Leaves \cup {EmptyMap}
               \cup {Map(Object([k \in {S("b"), S("c")} |-> IF k = S("b") THEN v ELSE w])) :
                        v \in AtB, w \in {Nil, Str(S("x"))}}
    IN {Object([k \in {S("a"), S("h")} |-> IF k = S("a") THEN x ELSE y]) :
           x \in AtA \cup {Nil}, y \in {Nil, T, HashOf(Content(1))}}

InitPath ==
    LET Paths == {<<"a">>, <<"a", Dot, "b">>, <<"a", Dot, "b", Dot, "c">>, <<"h">>,
                  <<"status", Dot, "h", Dot, "c">>, <<"a", Dot, Dot, "b">>}
    IN /\ req \in {Request(Input(DataFieldResources, Str(flag), Str(hash), Nil, Nil),
                            Map(Composite(S("XR"), SpecOf(Content(1)), Nil)),
                            Map(Composite(S("XR"), SpecOf(Content(1)), Map(doc)))) :
                       flag \in Paths, hash \in Paths, doc \in PathDocuments}
       /\ in = req.input
       /\ xr = EmptyFn
       /\ rsp = NoResponse
       /\ ev = "init"
       /\ hist = [now |-> NoHistory, before |-> NoHistory]

SpecPath == InitPath /\ [][NextRun]_vars

----------------------------------------------------------------------------
(* The life of one composite resource: the user edits the monitored field, *)
(* the approver patches the status, the pipeline invokes the function and  *)
(* the status it returns is persisted unless the result is fatal.          *)

\* a JSON merge patch applied to an object
MergePatch(target, patch) ==
    LET RECURSIVE merge(_, _)
        merge(m, q) ==
            [k \in (DOMAIN m) \cup (DOMAIN q) |->
                IF k \notin DOMAIN q THEN m[k]
                ELSE IF IsMap(q[k])
                     THEN Map(merge(IF k \in DOMAIN m /\ IsMap(m[k]) THEN m[k].v ELSE EmptyFn,
                                    q[k].v))
                     ELSE q[k]]
    IN merge(target, patch)

\* the object that holds value at path and nothing else
PatchAt(path, value) ==
    LET parts == ParseNestedKey(path).parts
        RECURSIVE nest(_)
        nest(i) == IF i > Len(parts) THEN value
                   ELSE Map([k \in {parts[i]} |-> nest(i + 1)])
    IN nest(1).v

\* kubectl patch --type=merge --subresource=status
PatchStatus(obj, path, value) ==
    LET status == GetValueInto(obj, S("status")).out
    IN Put(obj, S("status"), Map(MergePatch(status, PatchAt(path, value))))

\* the composite with the status a response returned merged into it
Persist(obj, rs) ==
    LET status == GetValueInto(obj, S("status")).out
        returned == DesiredStatus(rs.desired)
    IN IF DOMAIN returned = {} THEN obj
       ELSE Put(obj, S("status"), Map(MergePatch(status, returned)))

\* the monitored content of the composite
MonitoredContent(obj) == obj[S("spec")].v[S("resources")]

LifeInputs == {InputDefault, InputNested}

Init ==
    /\ in \in LifeInputs
    /\ \E c \in Contents : xr = Composite(S("XR"), SpecOf(c), Nil)
    /\ req = NoRequest
    /\ rsp = NoResponse
    /\ ev = "init"
    /\ hist = [now |-> NoHistory, before |-> NoHistory]

\* the user changes the monitored field
UserEdit(c) ==
    /\ c # MonitoredContent(xr)
    /\ xr' = Put(xr, S("spec"), Map(Put(xr[S("spec")].v, S("resources"), c)))
    /\ ev' = "edit"
    /\ UNCHANGED <<in, req, rsp, hist>>

\* the approver sets the approval flag to true
Approve ==
    /\ xr' = PatchStatus(xr, TrimPrefix(parseInput(Request(in, Nil, Nil), NoResponse).in
                                            .ApprovalField.v, StatusPrefix), T)
    /\ ev' = "approve"
    /\ hist' = [hist EXCEPT !.now.halted = FALSE,
                            !.now.granted = TRUE,
                            !.now.grantedAfterHalt = hist.now.halted \/ @,
                            !.now.approvedContent = MonitoredContent(xr)]
    /\ UNCHANGED <<in, req, rsp>>

\* the approver clears the stored hash
ResetHash ==
    /\ xr' = PatchStatus(xr, TrimPrefix(parseInput(Request(in, Nil, Nil), NoResponse).in
                                            .CurrentHashField.v, StatusPrefix), Str(EmptyStr))
    /\ ev' = "reset"
    /\ UNCHANGED <<in, req, rsp, hist>>

\* one pipeline run: the desired composite either repeats the observed one
\* or carries its spec without a status
Invoke(withStatus) ==
    \E desired \in {IF withStatus THEN xr ELSE Without(xr, S("status"))} :
    \E r \in {Request(in, Map(xr), Map(desired))} :
    \E rs \in {RunFunction(r)} :
    \E halt \in {HasCondition(rs, "ApprovalRequired")} :
    \E cont \in {HasCondition(rs, "FunctionSuccess") /\ ~HasFatal(rs)} :
       /\ req' = r
       /\ rsp' = rs
       /\ xr' = IF HasFatal(rs) THEN xr ELSE Persist(xr, rs)
       /\ ev' = "invoke"
       /\ hist' = [before |-> hist.now,
                   now |-> [hist.now EXCEPT
                              !.halted = halt \/ @,
                              !.continued = cont \/ @,
                              !.committed = IF cont THEN calculateHash(MonitoredContent(desired))
                                            ELSE @,
                              !.granted = IF cont THEN FALSE ELSE @,
                              !.grantedAfterHalt = FALSE]]
       /\ UNCHANGED in

Next ==
    \/ \E c \in Contents : UserEdit(c)
    \/ Approve
    \/ ResetHash
    \/ \E withStatus \in BOOLEAN : Invoke(withStatus)

Spec == Init /\ [][Next]_vars

----------------------------------------------------------------------------
(* Reading a request the way the gate does, for the statements below *)

\* the input with its defaults
ConfigOf(r) == parseInput(r, ResponseTo(r)).in

HashPath(r) == TrimPrefix(ConfigOf(r).CurrentHashField.v, StatusPrefix)

FlagPath(r) == TrimPrefix(ConfigOf(r).ApprovalField.v, StatusPrefix)

\* approvalFlagPath is a proper prefix of currentHashPath: the false that the
\* commit writes at the flag replaces the mapping that holds the hash
FlagOverwritesHash(r) ==
    \E n \in 1..Len(HashPath(r)) : SubSeq(HashPath(r), 1, n) = FlagPath(r) \o <<Dot>>

\* the status the gate reads, and the one the commit starts from
StatusRead(r) == getXRAndStatus(r).xrStatus

StatusOfDesired(r) == DesiredStatus(r.desired)

\* newHash, currentHash (the stored hash) and approved as read from the request
Reading(r) == processHashingAndApproval(r, ConfigOf(r), ResponseTo(r))

ReachesDecision(r) ==
    initializeFunction(r, ResponseTo(r)).err = NoErr /\ Reading(r).err = NoErr

\* a segment before the last one of path holds a value that is not a mapping
Blocked(status, path) ==
    LET parts == ParseNestedKey(path).parts
        RECURSIVE at(_, _)
        at(m, i) ==
            /\ i < Len(parts)
            /\ parts[i] \in DOMAIN m
            /\ \/ ~IsMap(m[parts[i]])
               \/ at(m[parts[i]].v, i + 1)
    IN at(status, 1)

ConditionIs(rs, type, status, reason) ==
    \E i \in 1..Len(rs.conditions) :
        /\ rs.conditions[i].type = type
        /\ rs.conditions[i].status = status
        /\ rs.conditions[i].reason = reason

\* the gate decides to halt on what it read from r
MustHalt(r) ==
    LET p == Reading(r)
    IN ~p.approved /\ (p.currentHash = EmptyStr \/ p.currentHash # p.newHash)

----------------------------------------------------------------------------
(* C1 *)

\* C1 as stated: an invocation that reaches the decision halts iff the
\* approval flag is false or absent and the stored hash is empty or differs
\* from the current hash, and in every other case it continues.
C1_HaltsIffElseContinues ==
    (ev = "run" /\ ReachesDecision(req)) =>
        /\ Halted(rsp) <=> MustHalt(req)
        /\ ~MustHalt(req) => Continued(rsp)

\* C1 amended: an invocation that reaches the decision halts (ApprovalRequired
\* and a fatal result, no FunctionSuccess) iff the approval flag is false or
\* absent and the stored hash is empty or differs from the current hash; in
\* every other case it takes the Continue branch, which reports FunctionSuccess
\* unless the hash cannot be written because a segment of currentHashPath holds
\* a non-mapping in the desired status: then it ends with a fatal result and
\* no condition.
C1_HaltsIffElseContinuesOrCommitFails ==
    (ev = "run" /\ ReachesDecision(req)) =>
        /\ Halted(rsp) <=> MustHalt(req)
        /\ MustHalt(req) => HasFatal(rsp) /\ ~HasCondition(rsp, "FunctionSuccess")
        /\ ~MustHalt(req) =>
            IF Blocked(StatusOfDesired(req), HashPath(req))
            THEN HasFatal(rsp) /\ rsp.conditions = <<>>
            ELSE Continued(rsp)

\* continuing without approval, the stored hash equal to the current one
C1_Witness ==
    /\ ev = "run"
    /\ ReachesDecision(req)
    /\ ~Reading(req).approved
    /\ Reading(req).currentHash = Reading(req).newHash
    /\ Continued(rsp)

\* the halting case, with a stored hash that differs from the current one
C1_WitnessHalt ==
    /\ ev = "run"
    /\ ReachesDecision(req)
    /\ ~Reading(req).approved
    /\ Reading(req).currentHash # EmptyStr
    /\ Reading(req).currentHash # Reading(req).newHash
    /\ Halted(rsp)

\* the case in which the decision is to continue and the commit fails
C1_WitnessCommitFails ==
    /\ ev = "run"
    /\ ReachesDecision(req)
    /\ ~MustHalt(req)
    /\ Blocked(StatusOfDesired(req), HashPath(req))
    /\ HasFatal(rsp)

----------------------------------------------------------------------------
(* C2 *)

\* the values at currentHashPath and approvalFlagPath in the status of the
\* desired composite of the response
CommittedHash == GetNestedValue(DesiredStatus(rsp.desired), HashPath(req))

CommittedFlag == GetNestedValue(DesiredStatus(rsp.desired), FlagPath(req))

\* C2 as stated: after every invocation that continues, the status of the
\* desired composite in the response holds the just-computed hash at
\* currentHashPath and the boolean false at approvalFlagPath.
C2_CommitHoldsHashAndFalse ==
    (ev = "run" /\ Continued(rsp)) =>
        /\ CommittedHash.exists /\ CommittedHash.value = Str(Reading(req).newHash)
        /\ CommittedFlag.exists /\ CommittedFlag.value = F

\* C2 amended: after every invocation that continues, the status of the
\* desired composite in the response holds the just-computed hash at
\* currentHashPath, and the boolean false at approvalFlagPath unless a segment
\* of approvalFlagPath before the last holds a non-mapping in that status: then
\* the write of the flag was dropped and approvalFlagPath resolves to nothing.
\* When approvalFlagPath is a proper prefix of currentHashPath, the false
\* written there has replaced the hash, and currentHashPath resolves to nothing.
C2_CommitHoldsHashAndFalseUnlessBlocked ==
    (ev = "run" /\ Continued(rsp)) =>
        /\ IF FlagOverwritesHash(req)
           THEN ~CommittedHash.exists
           ELSE CommittedHash.exists /\ CommittedHash.value = Str(Reading(req).newHash)
        /\ IF Blocked(DesiredStatus(rsp.desired), FlagPath(req))
           THEN ~CommittedFlag.exists
           ELSE CommittedFlag.exists /\ CommittedFlag.value = F

\* an approved change: the flag read true, the stored hash differed, and the
\* response holds the new hash and false
C2_Witness ==
    /\ ev = "run"
    /\ Continued(rsp)
    /\ Reading(req).approved
    /\ Reading(req).currentHash # Reading(req).newHash
    /\ CommittedHash.value = Str(Reading(req).newHash)
    /\ CommittedFlag.value = F

----------------------------------------------------------------------------
(* C3 *)

\* C3 as stated: whenever the approval flag read from status is true, the
\* invocation continues whatever the stored hash: no fatal result, no
\* ApprovalRequired condition, and a FunctionSuccess condition.
C3_ApprovedContinues ==
    (ev = "run" /\ ReachesDecision(req) /\ Reading(req).approved) =>
        /\ ~HasFatal(rsp)
        /\ ~HasCondition(rsp, "ApprovalRequired")
        /\ HasCondition(rsp, "FunctionSuccess")

\* C3 amended: whenever the approval flag read from status is true, the
\* decision is to continue whatever the stored hash: the response has no
\* ApprovalRequired condition, and it has no fatal result and a FunctionSuccess
\* condition unless the hash cannot be written because a segment of
\* currentHashPath before the last holds a non-mapping in the status of the
\* desired composite; then it has a fatal result and no FunctionSuccess.
C3_ApprovedContinuesUnlessCommitFails ==
    (ev = "run" /\ ReachesDecision(req) /\ Reading(req).approved) =>
        /\ ~HasCondition(rsp, "ApprovalRequired")
        /\ IF Blocked(StatusOfDesired(req), HashPath(req))
           THEN HasFatal(rsp) /\ ~HasCondition(rsp, "FunctionSuccess")
           ELSE ~HasFatal(rsp) /\ HasCondition(rsp, "FunctionSuccess")

\* approved with a stored hash that differs from the current one
C3_Witness ==
    /\ ev = "run"
    /\ ReachesDecision(req)
    /\ Reading(req).approved
    /\ Reading(req).currentHash # EmptyStr
    /\ Reading(req).currentHash # Reading(req).newHash
    /\ Continued(rsp)

----------------------------------------------------------------------------
(* C4 *)

\* the monitored field of the desired composite resolves
MonitoredPresent(r) ==
    r.input.valid /\ extractDataToHash(r, ConfigOf(r), ResponseTo(r)).err = NoErr

StoredFlag(r) == GetNestedValue(StatusRead(r), FlagPath(r))

StoredHash(r) == GetNestedValue(StatusRead(r), HashPath(r))

\* C4: with the monitored field present, the approval flag false or absent
\* and the stored hash absent or the empty string, the invocation halts
\* whatever the monitored content is; the absent stored hash is no error.
C4_NoStoredHashHalts ==
    (/\ ev = "run"
     /\ MonitoredPresent(req)
     /\ ~StoredFlag(req).exists \/ StoredFlag(req).value = F
     /\ ~StoredHash(req).exists \/ StoredHash(req).value = Str(EmptyStr)) =>
        /\ ConditionIs(rsp, "ApprovalRequired", "False", "WaitingForApproval")
        /\ Len(rsp.results) = 1
        /\ Len(rsp.conditions) = 1

\* a stored hash cleared to the empty string under content that was approved
\* before (the observed status still holds its hash): the gate halts
C4_Witness ==
    /\ ev = "run"
    /\ MonitoredPresent(req)
    /\ StoredFlag(req).exists /\ StoredFlag(req).value = F
    /\ StoredHash(req).exists /\ StoredHash(req).value = Str(EmptyStr)
    /\ Halted(rsp)

\* the stored hash is absent altogether and the gate halts
C4_WitnessAbsent ==
    /\ ev = "run"
    /\ MonitoredPresent(req)
    /\ ~StoredHash(req).exists
    /\ ~StoredFlag(req).exists
    /\ Halted(rsp)

----------------------------------------------------------------------------
(* C5 *)

\* the monitored content an invocation hashed
InvokedContent == MonitoredContent(req.desired.composite.v)

\* the status of the composite after the invocation's result was persisted
PersistedHash == GetNestedValue(GetValueInto(xr, S("status")).out, HashPath(req))

PersistedFlag == GetNestedValue(GetValueInto(xr, S("status")).out, FlagPath(req))

\* C5: approval is single-use.  Once an invocation has continued and its
\* status was persisted, an invocation on content whose hash differs from the
\* committed one halts unless the approval flag was set to true again after
\* that Continue.
C5_ApprovalIsSingleUse ==
    (/\ ev = "invoke"
     /\ hist.before.continued
     /\ ~hist.before.granted
     /\ Reading(req).newHash # hist.before.committed) =>
        Halted(rsp) /\ ~Continued(rsp)

\* a Continue, then an edit, and the next invocation halts
C5_Witness ==
    /\ ev = "invoke"
    /\ hist.before.continued
    /\ ~hist.before.granted
    /\ Reading(req).newHash # hist.before.committed
    /\ hist.before.committed # EmptyStr
    /\ StoredHash(req).value = Str(hist.before.committed)
    /\ Halted(rsp)

----------------------------------------------------------------------------
(* C6 *)

\* C6 as stated: once an invocation has halted, every later invocation halts
\* for as long as the approval flag has not been set to true, whatever edits
\* are made to the monitored subtree in between.
C6_HaltedUntilApproved ==
    (ev = "invoke" /\ hist.before.halted) => Halted(rsp)

\* C6 amended: once an invocation has halted, every later invocation halts
\* for as long as the approval flag has not been set to true and the stored
\* hash is empty or differs from the hash of the current content; an edit
\* back to the content whose hash is stored lets the gate continue without
\* any approval.
C6_HaltedUntilApprovedOrReverted ==
    (ev = "invoke" /\ hist.before.halted) =>
        IF Reading(req).currentHash = EmptyStr
           \/ Reading(req).currentHash # Reading(req).newHash
        THEN Halted(rsp) /\ ~Continued(rsp)
        ELSE Continued(rsp) /\ ~Halted(rsp)

\* halted on an edit, the content edited again, never approved: still halted
C6_Witness ==
    /\ ev = "invoke"
    /\ hist.before.halted
    /\ hist.before.continued
    /\ Reading(req).currentHash # EmptyStr
    /\ Reading(req).currentHash # Reading(req).newHash
    /\ Halted(rsp)

\* halted on an edit, the edit undone, never approved: the gate continues
C6_WitnessReverted ==
    /\ ev = "invoke"
    /\ hist.before.halted
    /\ Reading(req).currentHash = Reading(req).newHash
    /\ Continued(rsp)

----------------------------------------------------------------------------
(* C7 *)

----------------------------------------------------------------------------
(* C8 *)

\* C8: no change proceeds until it has been explicitly approved.  Each
\* Continue that commits a hash different from the previously stored hash is
\* for content that was already the current content when the approval flag
\* was last set to true.
C8_ContinueOnlyForApprovedContent ==
    (/\ ev = "invoke"
     /\ Continued(rsp)
     /\ CommittedHash.value # Str(Reading(req).currentHash)) =>
        hist.before.approvedContent = InvokedContent

----------------------------------------------------------------------------
(* C9 *)

\* C9: every halting invocation emits an ApprovalRequired condition with
\* status False and reason WaitingForApproval, and a fatal result that carries
\* the same message as that condition.
C9_HaltEmitsConditionAndFatal ==
    (ev = "run" /\ (Halted(rsp) \/ (ReachesDecision(req) /\ MustHalt(req)))) =>
        \E i \in 1..Len(rsp.conditions) : \E j \in 1..Len(rsp.results) :
            /\ rsp.conditions[i].type = "ApprovalRequired"
            /\ rsp.conditions[i].status = "False"
            /\ rsp.conditions[i].reason = "WaitingForApproval"
            /\ rsp.results[j].severity = "FATAL"
            /\ rsp.results[j].message = rsp.conditions[i].message

\* a halt under detailedCondition, whose message is longer than the base one
C9_Witness ==
    /\ ev = "run"
    /\ ReachesDecision(req)
    /\ MustHalt(req)
    /\ ConfigOf(req).DetailedCondition = T
    /\ Halted(rsp)
    /\ HasFatal(rsp)

----------------------------------------------------------------------------
(* C10 *)

\* C10: every invocation that continues emits a FunctionSuccess condition
\* with status True, reason Success and message "Approved successfully" and no
\* result of any severity; no invocation emits both a FunctionSuccess
\* condition and a fatal result.
C10_SuccessConditionAlone ==
    (ev = "run" /\ HasCondition(rsp, "FunctionSuccess")) =>
        /\ rsp.results = <<>>
        /\ \A i \in 1..Len(rsp.conditions) :
            rsp.conditions[i].type = "FunctionSuccess" =>
                /\ rsp.conditions[i].status = "True"
                /\ rsp.conditions[i].reason = "Success"
                /\ rsp.conditions[i].message = S("Approved successfully")

\* a continuing invocation
C10_Witness ==
    /\ ev = "run"
    /\ ReachesDecision(req)
    /\ ~MustHalt(req)
    /\ ConditionIs(rsp, "FunctionSuccess", "True", "Success")
    /\ rsp.results = <<>>

----------------------------------------------------------------------------
(* C11 *)

\* the values the status the gate read holds at currentHashPath and at
\* approvalFlagPath
ReadHash == GetNestedValue(StatusRead(req), HashPath(req))

ReadFlag == GetNestedValue(StatusRead(req), FlagPath(req))

\* the invocation ended with an error before the decision
FailedBeforeDecision == ev = "run" /\ ~ReachesDecision(req)

\* C11 as stated: when an invocation halts, or fails with an error before the
\* decision, the values at currentHashPath and approvalFlagPath in the
\* response's status are the same, or equally absent, as in the status that
\* was read.
C11_NoCommitUnlessContinue ==
    (ev = "run" /\ req.input.valid /\ (Halted(rsp) \/ FailedBeforeDecision)) =>
        /\ CommittedHash = ReadHash
        /\ CommittedFlag = ReadFlag

\* the status the response starts from: the status that was read or, when
\* that one is empty, the status of the desired composite of the request
StatusPassedOn ==
    IF DOMAIN StatusRead(req) # {} THEN StatusRead(req) ELSE StatusOfDesired(req)

\* C11 amended: the status commit runs only on Continue.  When an invocation
\* halts, or fails with an error before the decision, the values at
\* currentHashPath and approvalFlagPath in the response's status are those of
\* the status that was read or, when the status that was read is empty, those
\* of the status of the desired composite of the request, which is then
\* passed on as it came.
C11_NoCommitUnlessContinueFromPassedOn ==
    (ev = "run" /\ req.input.valid /\ (Halted(rsp) \/ FailedBeforeDecision)) =>
        /\ CommittedHash = GetNestedValue(StatusPassedOn, HashPath(req))
        /\ CommittedFlag = GetNestedValue(StatusPassedOn, FlagPath(req))
        /\ DOMAIN StatusRead(req) # {} =>
            CommittedHash = ReadHash /\ CommittedFlag = ReadFlag

\* a halt on changed content: the response still holds the stored hash
C11_Witness ==
    /\ ev = "run"
    /\ Halted(rsp)
    /\ ReadHash.exists
    /\ ReadHash.value \notin {Str(EmptyStr), Str(Reading(req).newHash)}
    /\ CommittedHash = ReadHash
    /\ CommittedFlag = ReadFlag

\* a type error before the decision: the response holds what was read
C11_WitnessError ==
    /\ FailedBeforeDecision
    /\ req.input.valid
    /\ ReadHash.exists
    /\ ReadHash.value.t # "str"
    /\ CommittedHash = ReadHash

----------------------------------------------------------------------------
(* C12 *)

----------------------------------------------------------------------------
(* C13 *)

\* the default of the input's newHashField; fn.go never reads the field
DefaultNewHashField == <<"status", Dot, "newHash">>

\* the value at the new-hash field in the status of the response
NewHashInResponse ==
    GetNestedValue(DesiredStatus(rsp.desired), TrimPrefix(DefaultNewHashField, StatusPrefix))

\* C13: after an invocation that halts because approval is required, the
\* status of the desired composite in the response holds, at the new-hash
\* field, the non-empty hash just computed from the monitored field.
C13_HaltStoresNewHash ==
    (ev = "run" /\ Halted(rsp)) =>
        /\ NewHashInResponse.exists
        /\ NewHashInResponse.value = Str(Reading(req).newHash)
        /\ Reading(req).newHash # EmptyStr

----------------------------------------------------------------------------
(* C14 *)

\* the fields of a status: each path that ends in a value that is not a
\* non-empty mapping, with that value
RECURSIVE FieldsBelow(_, _)
FieldsBelow(m, prefix) ==
    UNION {IF IsMap(m[k]) /\ DOMAIN m[k].v # {}
           THEN FieldsBelow(m[k].v, Append(prefix, k))
           ELSE {[path |-> Append(prefix, k), value |-> m[k]]} : k \in DOMAIN m}

StatusFields(status) == FieldsBelow(status, <<>>)

\* the fields of a status other than the ones at currentHashPath and
\* approvalFlagPath of request r
OtherFields(status, r) ==
    {f \in StatusFields(status) :
        f.path \notin {ParseNestedKey(HashPath(r)).parts, ParseNestedKey(FlagPath(r)).parts}}

\* C14: on Continue every status field other than the ones at currentHashPath
\* and approvalFlagPath is present in the response's status with the value it
\* had in the status the gate read, whether that status came from the desired
\* or from the observed composite.
C14_ContinueKeepsOtherFields ==
    (ev = "run" /\ Continued(rsp)) =>
        OtherFields(StatusRead(req), req) \subseteq StatusFields(DesiredStatus(rsp.desired))

\* a Continue on a status read from the desired composite: its other field
\* is in the response
C14_WitnessDesired ==
    /\ ev = "run"
    /\ Continued(rsp)
    /\ StatusRead(req) = StatusOfDesired(req)
    /\ OtherFields(StatusRead(req), req) # {}
    /\ OtherFields(StatusRead(req), req) \subseteq StatusFields(DesiredStatus(rsp.desired))

----------------------------------------------------------------------------
(* C15 *)

\* the spec of a composite, Nil when it has none
SpecIn(composite) ==
    IF composite # Nil /\ S("spec") \in DOMAIN composite.v
    THEN composite.v[S("spec")] ELSE Nil

\* the observed spec is one initializeAndCopyData copies
ObservedSpecCopied ==
    /\ GetValueInto(GetObservedCompositeResource(req), S("spec")).err = NoErr
    /\ DOMAIN GetValueInto(GetObservedCompositeResource(req), S("spec")).out # {}

C15_WitnessContinue ==
    /\ ev = "run"
    /\ Continued(rsp)
    /\ SpecIn(req.desired.composite) # SpecIn(req.observed)
    /\ SpecIn(rsp.desired.composite) = SpecIn(req.desired.composite)

----------------------------------------------------------------------------
(* C16 *)

\* the document the monitored path is resolved in, and the two parts of a
\* monitored path that splits
Document == GetDesiredCompositeResource(req)

MonitoredSplits == req.input.valid /\ Len(SplitN2(req.input.DataField)) = 2

Section == SplitN2(req.input.DataField)[1]

Field == SplitN2(req.input.DataField)[2]

SectionAbsent == Section \notin DOMAIN Document

SectionNotMapping == Section \in DOMAIN Document /\ ~IsMap(Document[Section])

FieldAbsent ==
    /\ Section \in DOMAIN Document
    /\ IsMap(Document[Section])
    /\ ~GetNestedValue(Document[Section].v, Field).exists

\* the response is a fatal result without a decision
FatalWithoutDecision ==
    /\ HasFatal(rsp)
    /\ ~HasCondition(rsp, "ApprovalRequired")
    /\ ~HasCondition(rsp, "FunctionSuccess")

\* C16: if the section named by monitoredPath is absent or not a mapping in
\* the document, or the field is absent within that section, the invocation
\* ends with a fatal result and reaches no decision.
C16_MissingMonitoredFieldIsFatal ==
    (ev = "run" /\ MonitoredSplits
        /\ (SectionAbsent \/ SectionNotMapping \/ FieldAbsent)) =>
        FatalWithoutDecision /\ ~ReachesDecision(req)

\* the section is there and the field is not, under an approved status
C16_Witness ==
    /\ ev = "run"
    /\ MonitoredSplits
    /\ FieldAbsent
    /\ StatusRead(req) # EmptyFn
    /\ FatalWithoutDecision
    /\ Len(rsp.results) = 1

\* the section is absent
C16_WitnessSectionAbsent ==
    ev = "run" /\ MonitoredSplits /\ SectionAbsent /\ Document # EmptyFn
    /\ FatalWithoutDecision

\* the section is not a mapping
C16_WitnessSectionNotMapping ==
    ev = "run" /\ MonitoredSplits /\ SectionNotMapping /\ FatalWithoutDecision

----------------------------------------------------------------------------
(* C17 *)

\* a value exists at currentHashPath and is not a string
HashIsNoString == ReadHash.exists /\ ReadHash.value.t # "str"

\* a value exists at approvalFlagPath and is not a boolean
FlagIsNoBoolean == ReadFlag.exists /\ ReadFlag.value.t # "bool"

\* some fatal result of the response carries the message
FatalSays(message) ==
    \E i \in 1..Len(rsp.results) :
        rsp.results[i].severity = "FATAL" /\ rsp.results[i].message = message

HashMismatchText == S("current hash field ") \o HashPath(req) \o S(" is not a string")

FlagMismatchText == S("approval field ") \o FlagPath(req) \o S(" is not a boolean")

\* C17: in an invocation whose monitored field resolves, a value at
\* currentHashPath that is not a string, or a value at approvalFlagPath that
\* is not a boolean, ends the invocation with a fatal type-mismatch result
\* and no decision, whatever the other status field holds.
C17_WrongTypeIsFatal ==
    (ev = "run" /\ MonitoredPresent(req)) =>
        /\ HashIsNoString => FatalWithoutDecision /\ FatalSays(HashMismatchText)
        /\ FlagIsNoBoolean =>
            /\ FatalWithoutDecision
            /\ FatalSays(HashMismatchText) \/ FatalSays(FlagMismatchText)
            /\ ~HashIsNoString => FatalSays(FlagMismatchText)

\* a stored hash that is not a string under an approval flag that is true
C17_Witness ==
    /\ ev = "run"
    /\ MonitoredPresent(req)
    /\ HashIsNoString
    /\ ReadFlag.exists /\ ReadFlag.value = T
    /\ FatalWithoutDecision

\* a flag that is not a boolean over a stored hash equal to the current one
C17_WitnessFlag ==
    /\ ev = "run"
    /\ MonitoredPresent(req)
    /\ FlagIsNoBoolean
    /\ ReadHash.exists /\ ReadHash.value = Str(Reading(req).newHash)
    /\ FatalSays(FlagMismatchText)
    /\ FatalWithoutDecision

----------------------------------------------------------------------------
(* C18 *)

\* the error that ends RunFunction(r) before its last statement, or NoErr
EndingError(r) ==
    With(initializeFunction(r, ResponseTo(r)), LAMBDA i :
        IF i.err # NoErr THEN i.err
        ELSE With(processHashingAndApproval(r, i.in, i.rsp), LAMBDA p :
             IF p.err # NoErr THEN p.err
             ELSE IF needsApproval(p.approved, p.currentHash, p.newHash)
             THEN NoErr
             ELSE handleApprovedChanges(r, i.in, p.rsp, p.newHash).err))

\* the response ends with a fatal result that carries a text
EndsWithFatalText ==
    /\ rsp.results # <<>>
    /\ rsp.results[Len(rsp.results)].severity = "FATAL"
    /\ rsp.results[Len(rsp.results)].message # EmptyStr

\* the status propagateDesiredXR writes into the desired composite cannot be stored
StatusWriteFails(r) ==
    With(getXRAndStatus(r), LAMBDA g :
        g.err = NoErr /\ DOMAIN g.xrStatus # {} /\ SetValueErr(Map(g.xrStatus)) # NoErr)

\* a status of the request holds a value that JSON cannot hold
UnserializableStatus(r) ==
    \/ r.observed # Nil /\ S("status") \in DOMAIN r.observed.v
       /\ Marshal(r.observed.v[S("status")]).err # NoErr
    \/ r.desired.composite # Nil /\ S("status") \in DOMAIN r.desired.composite.v
       /\ Marshal(r.desired.composite.v[S("status")]).err # NoErr

\* C18: an invocation that an error ends returns a response whose last
\* result is a fatal result carrying a text, and no success condition; the
\* one return of an error without a fatal result, the failed status write
\* of propagateDesiredXR, is never taken.
C18_ErrorsAreFatal ==
    ev = "run" =>
        /\ EndingError(req) # NoErr =>
              EndsWithFatalText /\ ~HasCondition(rsp, "FunctionSuccess")
        /\ ~StatusWriteFails(req)

\* an error ended the invocation and the response carries it
C18_Witness ==
    /\ ev = "run"
    /\ EndingError(req) # NoErr
    /\ EndsWithFatalText

\* a status that cannot be serialized is dropped when read, so its write
\* does not fail
C18_WitnessUnserializable ==
    /\ ev = "run"
    /\ UnserializableStatus(req)
    /\ EndingError(req) = NoErr

\* the error of the hash write in handleApprovedChanges
C18_WitnessSave ==
    /\ ev = "run"
    /\ ReachesDecision(req)
    /\ EndingError(req) # NoErr
    /\ EndsWithFatalText

----------------------------------------------------------------------------
(* C19 *)

InvalidDataFieldText ==
    S("invalid DataField format: ") \o req.input.DataField
        \o S(", expected section.field (e.g. spec.resources)")

\* C19: a monitoredPath that does not split into a section and a field, the
\* empty path of an input without dataField included, ends the invocation
\* with the fatal "invalid DataField format" result and no decision.
C19_UnsplittablePathIsFatal ==
    (ev = "run" /\ req.input.valid /\ ~MonitoredSplits) =>
        /\ FatalWithoutDecision
        /\ FatalSays(InvalidDataFieldText)
        /\ ~ReachesDecision(req)

\* a monitoredPath of one segment, on a request that would otherwise continue
C19_Witness ==
    /\ ev = "run"
    /\ req.input.valid
    /\ req.input.DataField = S("spec")
    /\ ReadFlag.exists /\ ReadFlag.value = T
    /\ FatalSays(InvalidDataFieldText)

\* an input without dataField
C19_WitnessEmpty ==
    /\ ev = "run"
    /\ req.input.valid
    /\ req.input.DataField = EmptyStr
    /\ FatalSays(InvalidDataFieldText)
    /\ FatalWithoutDecision

----------------------------------------------------------------------------
(* C20 *)

\* the value at monitoredPath in the document as the request holds it
RawMonitored ==
    IF MonitoredSplits /\ Section \in DOMAIN Document /\ IsMap(Document[Section])
    THEN GetNestedValue(Document[Section].v, Field)
    ELSE [value |-> Nil, exists |-> FALSE, err |-> NoErr]

\* the monitored value exists and json.Marshal fails on it
Unserializable == RawMonitored.exists /\ Marshal(RawMonitored.value).err # NoErr

\* the stored hash and the approval flag have their types
StatusTypesFit == ~HashIsNoString /\ ~FlagIsNoBoolean

\* the invocation came to its decision: it halted or it continued
Decided == Halted(rsp) \/ Continued(rsp)

\* C20 as stated: when the monitored value cannot be serialized the
\* invocation proceeds to the stored-hash and approval checks and, their
\* types fitting, to the decision.
C20_UnserializableProceeds ==
    (ev = "run" /\ Unserializable /\ StatusTypesFit) =>
        ReachesDecision(req) /\ Reading(req).newHash = EmptyStr /\ Decided

\* C20: the hasher itself never fails: for a value that cannot be
\* serialized calculateHash gives the empty string and adds no result, but
\* such a value never reaches it, because reading its section of the
\* document fails first and ends the invocation with a fatal result and no
\* decision; every monitored value that is extracted has a hash that is not
\* empty, and the invocation proceeds to the stored-hash and approval checks
\* and, their types fitting, to the decision.
C20_HasherNeverFails ==
    (ev = "run" /\ RawMonitored.exists) =>
        /\ Unserializable =>
              /\ calculateHash(RawMonitored.value) = EmptyStr
              /\ ~MonitoredPresent(req)
              /\ FatalWithoutDecision
        /\ MonitoredPresent(req) =>
              /\ ~Unserializable
              /\ calculateHash(RawMonitored.value) # EmptyStr
              /\ StatusTypesFit =>
                    /\ ReachesDecision(req)
                    /\ Reading(req).newHash = calculateHash(RawMonitored.value)
                    /\ Decided \/ EndingError(req) # NoErr

\* a monitored value that cannot be serialized, under statuses that would
\* otherwise let the invocation continue
C20_Witness ==
    /\ ev = "run"
    /\ Unserializable
    /\ StatusTypesFit
    /\ ReadFlag.exists /\ ReadFlag.value = T
    /\ FatalWithoutDecision

\* an extracted value is hashed and the invocation decides
C20_WitnessDecided ==
    /\ ev = "run"
    /\ MonitoredPresent(req)
    /\ Reading(req).newHash = calculateHash(RawMonitored.value)
    /\ Decided

----------------------------------------------------------------------------
(* C21 *)

\* requests that differ from r in composed resources, in another spec field
\* (spec.region, a sibling of the monitored field) or in another status
\* field (status.other)
Variants(r) ==
    LET WithOtherStatus(c) ==
            IF c = Nil THEN c
            ELSE Map(Put(c.v, S("status"),
                         Map(Put(IF S("status") \in DOMAIN c.v /\ IsMap(c.v[S("status")])
                                 THEN c.v[S("status")].v ELSE EmptyFn,
                                 S("other"), Str(S("x"))))))
        WithOtherRegion(c) ==
            IF c # Nil /\ S("spec") \in DOMAIN c.v /\ IsMap(c.v[S("spec")])
            THEN Map(Put(c.v, S("spec"),
                         Map(Put(c.v[S("spec")].v, S("region"), Str(S("eu-north-1"))))))
            ELSE c
    IN {WithResources(r, o, d) : o \in {EmptyMap, ObservedResources},
                                 d \in {EmptyMap, ProposedResources}}
       \cup {[r EXCEPT !.desired.composite = WithOtherRegion(@)],
             [r EXCEPT !.observed = WithOtherRegion(@)],
             [r EXCEPT !.desired.composite = WithOtherStatus(@)],
             [r EXCEPT !.observed = WithOtherStatus(@)],
             [r EXCEPT !.desired.composite = WithOtherStatus(@),
                       !.observed = WithOtherStatus(@)]}

\* what the gate reads from r: the monitored value, the stored hash, the flag
GateInputs(r) ==
    [data |-> With(SplitN2(r.input.DataField), LAMBDA parts :
              With(GetDesiredCompositeResource(r), LAMBDA doc :
                  IF Len(parts) = 2 /\ parts[1] \in DOMAIN doc /\ IsMap(doc[parts[1]])
                  THEN GetNestedValue(doc[parts[1]].v, parts[2])
                  ELSE [value |-> Nil, exists |-> FALSE, err |-> NoErr])),
     hash |-> StoredHash(r), flag |-> StoredFlag(r), config |-> r.input]

\* the hash the gate computes for r and the decision it reaches
GateOutcome(r) ==
    With(RunFunction(r), LAMBDA rs :
        [newHash |-> Reading(r).newHash, decided |-> ReachesDecision(r),
         halted |-> Halted(rs), success |-> HasCondition(rs, "FunctionSuccess")])

\* C21: two invocations that agree on the monitored value, the stored hash
\* and the approval flag as read, and the config, but differ in composed
\* resources, in another spec field or in another status field, compute
\* the same current hash and reach the same decision.
C21_OutcomeDependsOnGateInputsOnly ==
    (ev = "run" /\ req.input.valid) =>
        \A r2 \in Variants(req) :
            GateInputs(r2) = GateInputs(req) => GateOutcome(r2) = GateOutcome(req)

\* a request that halts, and one with another spec field, another status
\* field and other composed resources that reads the same and halts too
C21_Witness ==
    /\ ev = "run"
    /\ req.input.valid
    /\ Halted(rsp)
    /\ \E r2 \in Variants(req) :
          /\ r2.desired.composite # req.desired.composite
          /\ GateInputs(r2) = GateInputs(req)
          /\ Halted(RunFunction(r2))

\* the same for a request that continues
C21_WitnessContinue ==
    /\ ev = "run"
    /\ req.input.valid
    /\ Continued(rsp)
    /\ \E r2 \in Variants(req) :
          /\ r2 # req
          /\ GateInputs(r2) = GateInputs(req)
          /\ Continued(RunFunction(r2))

----------------------------------------------------------------------------
(* C22 *)

\* the commit of hash h on request r
Commit(r, h) == saveCurrentHash(r, ConfigOf(r), h, ResponseTo(r))

\* request r with the desired composite that response rs returns
Persisted(r, rs) == [r EXCEPT !.desired.composite = rs.desired.composite]

\* C22: a commit applied to the status that a successful commit of the same
\* hash returned yields the same status subtree; it succeeds as well, unless
\* approvalFlagPath is a proper prefix of currentHashPath, where the first
\* commit has put false in the way of the hash and the second one fails,
\* leaving the status as it is.
C22_CommitIdempotent ==
    (ev = "run" /\ req.input.valid) =>
        \A h \in {calculateHash(c) : c \in Contents} :
            \E once \in {Commit(req, h)} :
                once.err = NoErr =>
                    \E twice \in {Commit(Persisted(req, once.rsp), h)} :
                        /\ DesiredStatus(twice.rsp.desired) = DesiredStatus(once.rsp.desired)
                        /\ twice.err # NoErr =>
                              Blocked(DesiredStatus(once.rsp.desired), HashPath(req))
                        /\ twice.err # NoErr => FlagOverwritesHash(req)

\* a commit that changed the status (the flag was true, the stored hash
\* another one) and whose repetition succeeds and changes nothing
C22_Witness ==
    /\ ev = "run"
    /\ Continued(rsp)
    /\ ReadFlag.exists /\ ReadFlag.value = T
    /\ ReadHash.exists /\ ReadHash.value # Str(Reading(req).newHash)
    /\ DesiredStatus(rsp.desired) # StatusOfDesired(req)
    /\ \E twice \in {Commit(Persisted(req, rsp), Reading(req).newHash)} :
          /\ twice.err = NoErr
          /\ DesiredStatus(twice.rsp.desired) = DesiredStatus(rsp.desired)

\* the flag path above the hash path: the repeated commit fails
C22_WitnessFlagAbove ==
    /\ ev = "run"
    /\ req.input.valid
    /\ \E h \in {calculateHash(c) : c \in Contents} :
          /\ Commit(req, h).err = NoErr
          /\ Commit(Persisted(req, Commit(req, h).rsp), h).err # NoErr

----------------------------------------------------------------------------
(* C23 *)

----------------------------------------------------------------------------
(* C24 *)

C24_WitnessFound ==
    /\ ev = "run"
    /\ req.input.valid
    /\ Len(Split(HashPath(req))) = 2
    /\ ReadHash.exists
    /\ ReadHash.value.t = "str"

\* a path whose first segment is absent
C24_WitnessAbsent ==
    /\ ev = "run"
    /\ req.input.valid
    /\ Len(Split(FlagPath(req))) = 2
    /\ DOMAIN StatusRead(req) # {}
    /\ Split(FlagPath(req))[1] \notin DOMAIN StatusRead(req)
    /\ ~ReadFlag.exists

----------------------------------------------------------------------------
(* C25 *)

\* C25: for the status the gate reads and the status of the desired
\* composite, for currentHashPath and approvalFlagPath and for a hash and
\* false as the value, SetNestedValue fails exactly when a segment before
\* the last one holds a value that is not a mapping, and then leaves the
\* document as it was; otherwise the value is found at the path afterwards,
\* whatever was there before, the absent intermediate segments have become
\* mappings holding nothing else, and every other field is as before.
C25_SetCreatesMappingsOrFails ==
    (ev = "run" /\ req.input.valid) =>
        \A doc \in {StatusRead(req), StatusOfDesired(req)} :
        \A path \in {HashPath(req), FlagPath(req)} :
        \A value \in {F, HashOf(Content(1))} :
            LET segs == Split(path)
                isPrefix(s, u) == Len(s) <= Len(u) /\ SubSeq(u, 1, Len(s)) = s
                onPath(f) == isPrefix(f.path, segs) \/ isPrefix(segs, f.path)
            IN \E set \in {SetNestedValue(doc, path, value)} :
                  /\ set.err # NoErr <=> Blocked(doc, path)
                  /\ set.err # NoErr => set.root = doc
                  /\ set.err = NoErr =>
                        /\ GetNestedValue(set.root, path)
                              = [value |-> value, exists |-> TRUE, err |-> NoErr]
                        /\ StatusFields(set.root)
                              = {f \in StatusFields(doc) : ~onPath(f)}
                                   \cup {[path |-> segs, value |-> value]}

\* the commit of a continuing invocation created the mapping above the hash
C25_Witness ==
    /\ ev = "run"
    /\ Continued(rsp)
    /\ Len(Split(HashPath(req))) = 2
    /\ Split(HashPath(req))[1] \notin DOMAIN StatusOfDesired(req)
    /\ IsMap(DesiredStatus(rsp.desired)[Split(HashPath(req))[1]])
    /\ GetNestedValue(DesiredStatus(rsp.desired), HashPath(req)).value
          = Str(Reading(req).newHash)

\* the commit met a value that is not a mapping above the hash and failed
C25_WitnessBlocked ==
    /\ ev = "run"
    /\ ReachesDecision(req)
    /\ Blocked(StatusOfDesired(req), HashPath(req))
    /\ EndingError(req) # NoErr
    /\ HasFatal(rsp)

\* the commit overwrote another stored hash
C25_WitnessOverwrite ==
    /\ ev = "run"
    /\ Continued(rsp)
    /\ GetNestedValue(StatusOfDesired(req), HashPath(req)).exists
    /\ GetNestedValue(StatusOfDesired(req), HashPath(req)).value
          # Str(Reading(req).newHash)
    /\ GetNestedValue(DesiredStatus(rsp.desired), HashPath(req)).value
          = Str(Reading(req).newHash)

----------------------------------------------------------------------------
(* C26 *)

\* C26: the message of a halt, on the condition and on the fatal result, is
\* the configured approvalMessage, or "Changes detected. Approval required."
\* when none is configured, and nothing more when detailedCondition is
\* false; when it is true or not configured, that message is followed by the
\* current hash, the stored hash (empty when there is none) and the
\* instruction naming the approval field as configured, in this order.
C26_HaltMessage ==
    (ev = "run" /\ Halted(rsp)) =>
        LET base == IF req.input.ApprovalMessage = Nil
                    THEN S("Changes detected. Approval required.")
                    ELSE req.input.ApprovalMessage.v
            stored == IF ReadHash.exists THEN ReadHash.value.v ELSE EmptyStr
            flagPath == IF req.input.ApprovalField = Nil
                        THEN <<"status", Dot, "approved">>
                        ELSE req.input.ApprovalField.v
            expected ==
                IF req.input.DetailedCondition = F
                THEN base
                ELSE base \o S("\nCurrent hash: ") \o calculateHash(RawMonitored.value)
                          \o S("\n") \o S("Approved hash: ") \o stored
                          \o S("\n") \o S("Approve this change by setting ") \o flagPath
                          \o S(" to true")
        IN /\ \A i \in 1..Len(rsp.conditions) :
                 rsp.conditions[i].type = "ApprovalRequired" =>
                     rsp.conditions[i].message = expected
           /\ FatalSays(expected)
           /\ Len(rsp.results) = 1

\* the default: the default message with both hashes, which differ, and the
\* default approval field
C26_Witness ==
    /\ ev = "run"
    /\ Halted(rsp)
    /\ req.input.ApprovalMessage = Nil
    /\ req.input.DetailedCondition = Nil
    /\ req.input.ApprovalField = Nil
    /\ ReadHash.exists /\ ReadHash.value.t = "str"
    /\ ReadHash.value.v # EmptyStr
    /\ FatalSays(S("Changes detected. Approval required.")
                 \o S("\nCurrent hash: ") \o Reading(req).newHash
                 \o S("\n") \o S("Approved hash: ") \o ReadHash.value.v
                 \o S("\n") \o S("Approve this change by setting ") \o <<"status", Dot, "approved">>
                 \o S(" to true"))

\* detailedCondition false and a configured message: the message alone
C26_WitnessPlain ==
    /\ ev = "run"
    /\ Halted(rsp)
    /\ req.input.DetailedCondition = F
    /\ req.input.ApprovalMessage # Nil
    /\ FatalSays(req.input.ApprovalMessage.v)

\* detailedCondition true, a configured message and an approval field
\* configured without the status prefix
C26_WitnessUnprefixed ==
    /\ ev = "run"
    /\ Halted(rsp)
    /\ req.input.DetailedCondition = T
    /\ req.input.ApprovalMessage # Nil
    /\ req.input.ApprovalField = Str(S("approved"))

----------------------------------------------------------------------------
(* C27 *)

\* C27: every invocation returns a response and no error, the invocations
\* on an input that cannot be decoded and the ones an internal error ends
\* included; the failure is a fatal result of the response.
C27_ResponseAndNoError ==
    ev = "run" =>
        /\ RunFunctionError(req) = NoErr
        /\ rsp = RunFunction(req)
        /\ DOMAIN rsp = DOMAIN ResponseTo(req)
        /\ EndingError(req) # NoErr => HasFatal(rsp)

\* an input that cannot be decoded
C27_Witness ==
    /\ ev = "run"
    /\ ~req.input.valid
    /\ EndingError(req) # NoErr
    /\ RunFunctionError(req) = NoErr
    /\ HasFatal(rsp)

\* an internal failure after the input was decoded
C27_WitnessInternal ==
    /\ ev = "run"
    /\ req.input.valid
    /\ EndingError(req) # NoErr
    /\ RunFunctionError(req) = NoErr
    /\ HasFatal(rsp)

----------------------------------------------------------------------------
(* C28 *)

\* the value at monitoredPath in the observed composite
ObservedMonitored ==
    With(GetObservedCompositeResource(req), LAMBDA oxr :
        IF MonitoredSplits /\ Section \in DOMAIN oxr /\ IsMap(oxr[Section])
        THEN GetNestedValue(oxr[Section].v, Field)
        ELSE [value |-> Nil, exists |-> FALSE, err |-> NoErr])

\* C28: when the desired and the observed composite of the request hold
\* different values at monitoredPath, the current hash is the hash of the
\* desired composite's value and not the one of the observed composite's
\* value: it is the hash the decision is taken on and the hash a continuing
\* invocation commits (where the flag is not written over it).
C28_HashOfDesiredValue ==
    (/\ ev = "run"
     /\ MonitoredPresent(req)
     /\ ObservedMonitored.exists
     /\ ObservedMonitored.value # RawMonitored.value) =>
        /\ ReachesDecision(req) =>
              /\ Reading(req).newHash = calculateHash(RawMonitored.value)
              /\ Reading(req).newHash # calculateHash(ObservedMonitored.value)
        /\ (Continued(rsp) /\ ~FlagOverwritesHash(req)) =>
              GetNestedValue(DesiredStatus(rsp.desired), HashPath(req)).value
                 = Str(calculateHash(RawMonitored.value))
        /\ (ReachesDecision(req) /\ StoredHash(req).value = HashOf(ObservedMonitored.value)
               /\ ~Reading(req).approved) => Halted(rsp)

\* the stored hash is the one of the observed value and the flag is not
\* set: the desired value is hashed, so the invocation halts
C28_Witness ==
    /\ ev = "run"
    /\ MonitoredPresent(req)
    /\ ObservedMonitored.exists
    /\ ObservedMonitored.value # RawMonitored.value
    /\ ReadHash.exists /\ ReadHash.value = HashOf(ObservedMonitored.value)
    /\ Halted(rsp)

\* the stored hash is the one of the desired value: the invocation continues
\* although the observed value has another hash
C28_WitnessContinue ==
    /\ ev = "run"
    /\ MonitoredPresent(req)
    /\ ObservedMonitored.exists
    /\ ObservedMonitored.value # RawMonitored.value
    /\ ReadHash.exists /\ ReadHash.value = HashOf(RawMonitored.value)
    /\ ~Reading(req).approved
    /\ Continued(rsp)

----------------------------------------------------------------------------
(* C29 *)

\* the status of the observed composite of the request
StatusOfObserved(r) == GetValueInto(GetObservedCompositeResource(r), S("status")).out

\* C29 as stated: the status the stored hash and the approval flag are read
\* from is the desired composite's status whenever that one is not empty,
\* and the observed composite's status otherwise.
C29_DesiredStatusWhenNotEmpty ==
    (ev = "run" /\ req.input.valid) =>
        StatusRead(req) = IF DOMAIN StatusOfDesired(req) # {}
                          THEN StatusOfDesired(req)
                          ELSE StatusOfObserved(req)


\* C29: the status the stored hash and the approval flag are read from is
\* the desired composite's status whenever that one is not empty and a kind
\* is known, the desired composite's own or else the observed composite's,
\* and the observed composite's status otherwise; it is one status as a
\* whole, so a stored hash or an approval flag that only the other status
\* holds is not read.
C29_OneStatusAsAWhole ==
    (ev = "run" /\ req.input.valid) =>
        /\ StatusRead(req)
              = IF /\ DOMAIN StatusOfDesired(req) # {}
                   /\ \/ GetKind(GetDesiredCompositeResource(req)) # EmptyStr
                      \/ GetKind(GetObservedCompositeResource(req)) # EmptyStr
                THEN StatusOfDesired(req)
                ELSE StatusOfObserved(req)
        /\ StatusRead(req) \in {StatusOfDesired(req), StatusOfObserved(req)}
        /\ ReachesDecision(req) =>
              /\ Reading(req).approved = (ReadFlag.exists /\ ReadFlag.value = T)
              /\ Reading(req).currentHash
                    = IF ReadHash.exists THEN ReadHash.value.v ELSE EmptyStr

\* the desired status holds a flag that is false and no hash, the observed
\* status a flag that is true and a hash: the desired one is read, so there
\* is no stored hash and no approval, and the invocation halts
C29_Witness ==
    /\ ev = "run"
    /\ req.input.valid
    /\ DOMAIN StatusOfDesired(req) # {}
    /\ StatusRead(req) = StatusOfDesired(req)
    /\ GetNestedValue(StatusOfObserved(req), FlagPath(req)).value = T
    /\ GetNestedValue(StatusOfObserved(req), HashPath(req)).exists
    /\ ~ReadHash.exists
    /\ ReadFlag.exists /\ ReadFlag.value = F
    /\ Halted(rsp)

\* the desired status is empty: the observed one is read
C29_WitnessObserved ==
    /\ ev = "run"
    /\ req.input.valid
    /\ DOMAIN StatusOfDesired(req) = {}
    /\ StatusRead(req) = StatusOfObserved(req)
    /\ ReadFlag.exists /\ ReadFlag.value = T
    /\ Continued(rsp)

\* no kind is known: the desired status is not empty and yet the observed
\* one is read
C29_WitnessNoKind ==
    /\ ev = "run"
    /\ req.input.valid
    /\ DOMAIN StatusOfDesired(req) # {}
    /\ StatusRead(req) # StatusOfDesired(req)
    /\ StatusRead(req) = StatusOfObserved(req)

----------------------------------------------------------------------------
(* C30 *)

\* the request of the next invocation when the status that response rs
\* returns has been persisted on the composite and nothing else has changed
NextRequest(r, rs) ==
    IF DOMAIN DesiredStatus(rs.desired) = {} THEN r
    ELSE [r EXCEPT !.observed = Map(Persist(GetObservedCompositeResource(r), rs))]

\* C30 as stated: after a continuing invocation whose returned status is
\* persisted, the next invocation continues and returns the same status,
\* with the stored hash equal to the current hash and the approval flag
\* false.
C30_ContinueIsFixedPoint ==
    (ev = "run" /\ Continued(rsp)) =>
        \E next \in {RunFunction(NextRequest(req, rsp))} :
            /\ Continued(next)
            /\ DesiredStatus(next.desired) = DesiredStatus(rsp.desired)
            /\ GetNestedValue(DesiredStatus(next.desired), HashPath(req)).value
                  = Str(Reading(req).newHash)
            /\ GetNestedValue(DesiredStatus(next.desired), FlagPath(req)).value = F

\* C30: after a continuing invocation whose returned status is persisted,
\* the next invocation continues and returns the same status; the stored
\* hash in it is the current hash, and the approval flag is false, or
\* resolves to nothing when a segment of approvalFlagPath before the last
\* holds a value that is not a mapping; persisting that status again leaves
\* the request as it is, so the same holds of every later invocation.  The
\* exception is a configuration
\* whose approvalFlagPath is a proper prefix of currentHashPath: the commit
\* leaves no stored hash, and the next invocation halts.
C30_ContinueIsFixedPointUnlessBlocked ==
    (ev = "run" /\ Continued(rsp)) =>
        \E next \in {RunFunction(NextRequest(req, rsp))} :
        IF FlagOverwritesHash(req) THEN Halted(next)
        ELSE
            /\ Continued(next)
            \* persisting again changes nothing: every later request is this one
            /\ NextRequest(NextRequest(req, rsp), next) = NextRequest(req, rsp)
            /\ DesiredStatus(next.desired) = DesiredStatus(rsp.desired)
            /\ GetNestedValue(DesiredStatus(next.desired), HashPath(req)).value
                  = Str(Reading(req).newHash)
            /\ IF Blocked(DesiredStatus(next.desired), FlagPath(req))
               THEN ~GetNestedValue(DesiredStatus(next.desired), FlagPath(req)).exists
               ELSE GetNestedValue(DesiredStatus(next.desired), FlagPath(req)).value = F

\* an approved change is committed, and the next invocation, the flag now
\* false, continues on the stored hash and returns the same status
C30_Witness ==
    /\ ev = "run"
    /\ Continued(rsp)
    /\ Reading(req).approved
    /\ Reading(req).currentHash # Reading(req).newHash
    /\ NextRequest(req, rsp) # req
    /\ ~Reading(NextRequest(req, rsp)).approved
    /\ Continued(RunFunction(NextRequest(req, rsp)))
    /\ DesiredStatus(RunFunction(NextRequest(req, rsp)).desired) = DesiredStatus(rsp.desired)

\* the flag path above the hash path: a Continue, and then a halt
C30_WitnessFlagAbove ==
    /\ ev = "run"
    /\ Continued(rsp)
    /\ FlagOverwritesHash(req)
    /\ Halted(RunFunction(NextRequest(req, rsp)))

----------------------------------------------------------------------------
(* C31 *)

C31_WitnessBothEmpty ==
    /\ ev = "run"
    /\ RawMonitored.exists
    /\ calculateHash(RawMonitored.value) = EmptyStr
    /\ ReadFlag.exists /\ ReadFlag.value = F
    /\ ReadHash.exists /\ ReadHash.value = Str(EmptyStr)
    /\ needsApproval(FALSE, EmptyStr, calculateHash(RawMonitored.value))
    /\ ~Continued(rsp)

----------------------------------------------------------------------------
(* C32 *)

\* C32: in an invocation that reaches the decision and does not halt, the
\* commit writes the hash and then the flag into the status of the desired
\* composite of the request.  When the write of the hash fails, the response
\* ends with a fatal result that names the hash field and carries no
\* FunctionSuccess condition.  When the write of the hash succeeds and the
\* write of the flag fails, nothing in the response tells: it has no result
\* at all, FunctionSuccess is its only condition, and the status of its
\* desired composite is the status with the hash written and nothing else.
C32_FlagWriteFailureNotSurfaced ==
    (ev = "run" /\ ReachesDecision(req) /\ ~MustHalt(req)) =>
        \E got \in {GetValueInto(GetDesiredCompositeResource(req), S("status"))} :
        \E h \in {SetNestedValue(IF got.err # NoErr THEN EmptyFn ELSE got.out,
                                 HashPath(req), Str(Reading(req).newHash))} :
            /\ h.err # NoErr =>
                  /\ EndingError(req) = h.err
                  /\ FatalSays(Wrap(h.err, S("cannot set current hash field ")
                                           \o HashPath(req)))
                  /\ ~HasCondition(rsp, "FunctionSuccess")
                  /\ ~Continued(rsp)
            /\ h.err = NoErr =>
                  \E a \in {SetNestedValue(h.root, FlagPath(req), F)} :
                      a.err # NoErr =>
                          /\ EndingError(req) = NoErr
                          /\ Continued(rsp)
                          /\ rsp.results = <<>>
                          /\ Len(rsp.conditions) = 1
                          /\ ConditionIs(rsp, "FunctionSuccess", "True", "Success")
                          /\ CommittedHash.exists
                          /\ CommittedHash.value = Str(Reading(req).newHash)
                          /\ ~CommittedFlag.exists
                          /\ DesiredStatus(rsp.desired) = h.root

\* the flag could not be written below a value that the status already held,
\* and the invocation reports success with the hash committed
C32_Witness ==
    /\ ev = "run"
    /\ ReachesDecision(req)
    /\ ~MustHalt(req)
    /\ Blocked(StatusOfDesired(req), FlagPath(req))
    /\ ~Blocked(StatusOfDesired(req), HashPath(req))
    /\ Continued(rsp)
    /\ CommittedHash.value = Str(Reading(req).newHash)
    /\ ~CommittedFlag.exists

\* the hash could not be written and the invocation ended with a fatal result
C32_WitnessHashFails ==
    /\ ev = "run"
    /\ ReachesDecision(req)
    /\ ~MustHalt(req)
    /\ Blocked(StatusOfDesired(req), HashPath(req))
    /\ HasFatal(rsp)
    /\ ~HasCondition(rsp, "FunctionSuccess")

\* the hash just written is what blocks the flag: currentHashPath is a
\* proper prefix of approvalFlagPath
C32_WitnessHashAboveFlag ==
    /\ ev = "run"
    /\ ReachesDecision(req)
    /\ ~MustHalt(req)
    /\ ~Blocked(StatusOfDesired(req), FlagPath(req))
    /\ Blocked(DesiredStatus(rsp.desired), FlagPath(req))
    /\ Continued(rsp)
    /\ CommittedHash.value = Str(Reading(req).newHash)

----------------------------------------------------------------------------
(* C33 *)

\* C33: a call of SetNestedValue that returns an error leaves the document
\* as it was.  For the status the gate reads, the status the commit starts
\* from and that status with the hash written, for currentHashPath,
\* approvalFlagPath and two paths without a key, and for false, a hash and an
\* empty mapping as the value: the call fails exactly when the path has no
\* key or a segment before the last holds a value that is not a mapping, and
\* then the document it leaves is the document it was given, with no mapping
\* created and no value written.  A commit whose write of the hash fails
\* leaves the status of the response as it was passed on.
C33_FailedSetLeavesDocument ==
    (ev = "run" /\ req.input.valid) =>
        /\ \A doc \in {StatusRead(req), StatusOfDesired(req),
                        SetNestedValue(StatusOfDesired(req), HashPath(req),
                                       HashOf(Content(1))).root} :
           \A path \in {HashPath(req), FlagPath(req), EmptyStr, <<Dot>>} :
           \A value \in {F, HashOf(Content(1)), EmptyMap} :
               \E set \in {SetNestedValue(doc, path, value)} :
                   /\ set.err # NoErr <=>
                         ParseNestedKey(path).err # NoErr \/ Blocked(doc, path)
                   /\ set.err # NoErr =>
                         /\ set.root = doc
                         /\ StatusFields(set.root) = StatusFields(doc)
        /\ (/\ ReachesDecision(req)
            /\ ~MustHalt(req)
            /\ Blocked(StatusOfDesired(req), HashPath(req))) =>
               /\ EndingError(req) # NoErr
               /\ DesiredStatus(rsp.desired) = StatusPassedOn

\* the commit's write of the hash failed two mappings deep: the first
\* segment of currentHashPath holds a mapping, the second a leaf
C33_Witness ==
    /\ ev = "run"
    /\ ReachesDecision(req)
    /\ ~MustHalt(req)
    /\ Len(ParseNestedKey(HashPath(req)).parts) = 3
    /\ GetNestedValue(StatusOfDesired(req), <<"a">>).exists
    /\ IsMap(GetNestedValue(StatusOfDesired(req), <<"a">>).value)
    /\ GetNestedValue(StatusOfDesired(req), <<"a", Dot, "b">>).exists
    /\ ~IsMap(GetNestedValue(StatusOfDesired(req), <<"a", Dot, "b">>).value)
    /\ SetNestedValue(StatusOfDesired(req), HashPath(req),
                      Str(Reading(req).newHash)).err # NoErr
    /\ HasFatal(rsp)
    /\ DesiredStatus(rsp.desired) = StatusOfDesired(req)

\* the commit's write of the flag failed after the hash was written, and the
\* status of the response is the status with the hash written
C33_WitnessFlag ==
    /\ ev = "run"
    /\ Continued(rsp)
    /\ Blocked(StatusOfDesired(req), FlagPath(req))
    /\ Len(ParseNestedKey(FlagPath(req)).parts) = 3
    /\ DesiredStatus(rsp.desired)
          = SetNestedValue(StatusOfDesired(req), HashPath(req),
                           Str(Reading(req).newHash)).root

----------------------------------------------------------------------------
(* C34 *)

\* C34: after a call of SetNestedValue that returns no error, GetNestedValue
\* finds the value at the path, and at every path whose keys are neither a
\* prefix nor an extension of the keys of the path that was set it gives what
\* it gave before: the same value or the same absence.  Checked for the
\* status the commit starts from and that status with the hash written, for
\* currentHashPath and approvalFlagPath, for false, a hash and an empty
\* mapping as the value, and for every path of one to three keys out of a,
\* b, c and h, and for those of two keys also behind an empty segment.
C34_GetAfterSet ==
    (ev = "run" /\ req.input.valid) =>
        LET Keys == {"a", "b", "c", "h"}
            Probes == {<<k>> : k \in Keys}
                      \cup {<<k1, Dot, k2>> : k1, k2 \in Keys}
                      \cup {<<Dot, k1, Dot, Dot, k2>> : k1, k2 \in Keys}
                      \cup {<<k1, Dot, k2, Dot, k3>> : k1, k2, k3 \in Keys}
            isPrefix(s, u) == Len(s) <= Len(u) /\ SubSeq(u, 1, Len(s)) = s
        IN \A doc \in {StatusOfDesired(req),
                       SetNestedValue(StatusOfDesired(req), HashPath(req),
                                      HashOf(Content(1))).root} :
           \A path \in {HashPath(req), FlagPath(req)} :
           \A value \in {F, HashOf(Content(1)), EmptyMap} :
               \E set \in {SetNestedValue(doc, path, value)} :
               \E segs \in {ParseNestedKey(path).parts} :
                   set.err = NoErr =>
                       /\ GetNestedValue(set.root, path)
                             = [value |-> value, exists |-> TRUE, err |-> NoErr]
                       /\ \A q \in Probes :
                             \E qs \in {ParseNestedKey(q).parts} :
                                 (~isPrefix(qs, segs) /\ ~isPrefix(segs, qs)) =>
                                     GetNestedValue(set.root, q) = GetNestedValue(doc, q)

\* the commit wrote the hash three segments deep into a status that held
\* another field beside it, and the next read finds both
C34_Witness ==
    /\ ev = "run"
    /\ Continued(rsp)
    /\ HashPath(req) = <<"a", Dot, "b", Dot, "c">>
    /\ FlagPath(req) = <<"h">>
    /\ ~GetNestedValue(StatusOfDesired(req), HashPath(req)).exists
    /\ CommittedHash.exists /\ CommittedHash.value = Str(Reading(req).newHash)
    /\ CommittedFlag.exists /\ CommittedFlag.value = F

\* the commit wrote the flag below a mapping that held the hash beside it,
\* and the hash is found as before
C34_WitnessSibling ==
    /\ ev = "run"
    /\ Continued(rsp)
    /\ HashPath(req) = <<"a", Dot, "b">>
    /\ FlagPath(req) = <<"a", Dot, "b", Dot, "c">>
    /\ GetNestedValue(StatusOfDesired(req), <<"h">>).exists
    /\ GetNestedValue(DesiredStatus(rsp.desired), <<"h">>)
          = GetNestedValue(StatusOfDesired(req), <<"h">>)
    /\ CommittedHash.exists

\* a set through an existing mapping kept the field beside the path
C34_WitnessKept ==
    /\ ev = "run"
    /\ Continued(rsp)
    /\ HashPath(req) = <<"h">>
    /\ FlagPath(req) = <<"a", Dot, "b">>
    /\ GetNestedValue(StatusOfDesired(req), <<"a", Dot, "c">>).exists
    /\ GetNestedValue(DesiredStatus(rsp.desired), <<"a", Dot, "c">>)
          = GetNestedValue(StatusOfDesired(req), <<"a", Dot, "c">>)
    /\ CommittedFlag.exists /\ CommittedFlag.value = F
    /\ CommittedHash.exists /\ CommittedHash.value = Str(Reading(req).newHash)

====
